---------------------------- MODULE Spec2Model ----------------------------
(***************************************************************************)
(* Model of the static-analysis core of the analysis web server:           *)
(*   backend/analysis/parser/import_detector.py   (ImportDetector)         *)
(*   backend/analysis/parser/ast_analyzer.py      (ASTAnalyzer)            *)
(*   backend/analysis/core.py                     (AnalysisEngine)         *)
(* and of the services of its API:                                         *)
(*   backend/api/core/cache.py                    (RedisCache)             *)
(*   backend/api/core/websocket_manager.py        (ConnectionManager)      *)
(*   backend/api/routes/analysis.py               (jobs and their history) *)
(*   backend/api/services/sharing_service.py      (SharingService)         *)
(*                                                                         *)
(* A source text is modelled by the sequence of its top-level statements   *)
(* (each a snippet with a line span) plus a flag telling whether the text  *)
(* parses.  ast.parse is modelled by Parse, which lays the snippets out on *)
(* consecutive lines and builds the syntax tree with absolute line         *)
(* numbers; ast.walk is modelled by Walk, a breadth-first traversal.       *)
(***************************************************************************)
EXTENDS Integers, Sequences, FiniteSets, TLC

(***************************************************************************)
(* Bounds of the model                                                     *)
(***************************************************************************)
\* statements of the file written in the single-file specification
MaxStmts == 5
\* statements of all the files of a project run together
MaxProjStmts == 2
\* files discovered by one analyze_project run
MaxFiles == 2
\* raw lines of a text that does not parse
MaxRawLines == 2

(***************************************************************************)
(* Generic helpers                                                         *)
(***************************************************************************)
\* the sum of a sequence of numbers, by halves
RECURSIVE SumSeq(_)
SumSeq(s) ==
    IF s = <<>> THEN 0
    ELSE IF Len(s) = 1 THEN s[1]
    ELSE LET h == Len(s) \div 2
         IN  SumSeq(SubSeq(s, 1, h)) + SumSeq(SubSeq(s, h + 1, Len(s)))

\* the concatenation of a sequence of sequences, by halves
RECURSIVE ConcatAll(_)
ConcatAll(ss) ==
    IF ss = <<>> THEN <<>>
    ELSE IF Len(ss) = 1 THEN ss[1]
    ELSE LET h == Len(ss) \div 2
         IN  ConcatAll(SubSeq(ss, 1, h)) \o ConcatAll(SubSeq(ss, h + 1, Len(ss)))

SeqUpTo(S, n) == UNION {[1..k -> S] : k \in 0..n}

Range(s) == {s[i] : i \in DOMAIN s}

RECURSIVE Gcd(_, _)
Gcd(a, b) == IF b = 0 THEN a ELSE Gcd(b, a % b)

(***************************************************************************)
(* ImportDetector tables                                                   *)
(***************************************************************************)
FrameworkNames == {"PyQt5", "PyQt6", "PySide2", "PySide6", "tkinter", "wx"}

UI_FRAMEWORKS ==
    [fw \in FrameworkNames |->
        CASE fw \in {"PyQt5", "PyQt6"} ->
                 {"QtWidgets", "QtGui", "QtCore", "QtWebEngineWidgets", "uic"}
          [] fw \in {"PySide2", "PySide6"} ->
                 {"QtWidgets", "QtGui", "QtCore", "QtWebEngineWidgets"}
          [] OTHER -> {"*"}]

UI_BASE_CLASSES ==
    {"QWidget", "QMainWindow", "QDialog", "QFrame", "QScrollArea",
     "QPushButton", "QLabel", "QLineEdit", "QTextEdit", "QComboBox",
     "QCheckBox", "QRadioButton", "QSlider", "QProgressBar",
     "QTableWidget", "QListWidget", "QTreeWidget",
     "QGraphicsView", "QGraphicsScene", "QGraphicsItem",
     "Tk", "Frame", "Canvas", "Button", "Label"}

ui_methods ==
    {"show", "hide", "close", "exec", "exec_",
     "setText", "setEnabled", "setVisible",
     "addWidget", "setLayout", "setCentralWidget"}

(***************************************************************************)
(* Syntax tree nodes (the node kinds the analyzers look at)                *)
(***************************************************************************)
Name(id) == [t |-> "Name", id |-> id]
Attribute(value, attr) == [t |-> "Attribute", value |-> value, attr |-> attr]
Call(func, args) == [t |-> "Call", func |-> func, args |-> args]
Literal == [t |-> "Literal"]
Subscript(value) == [t |-> "Subscript", value |-> value]
ExprStmt(value) == [t |-> "Expr", value |-> value]
Return(value) == [t |-> "Return", value |-> value]
Pass == [t |-> "Pass"]
Global == [t |-> "Global"]
Nonlocal == [t |-> "Nonlocal"]
Assign == [t |-> "Assign"]
\* a dotted module name is the sequence of its components
ImportNode(names, line) == [t |-> "Import", names |-> names, lineno |-> line]
ImportFromNode(module, names, line) ==
    [t |-> "ImportFrom", module |-> module, names |-> names, lineno |-> line]
Alias(name, asname) == [name |-> name, asname |-> asname]
FunctionDef(name, first, last, body) ==
    [t |-> "FunctionDef", name |-> name, lineno |-> first,
     end_lineno |-> last, body |-> body]
AsyncFunctionDef(name, first, last, body) ==
    [t |-> "AsyncFunctionDef", name |-> name, lineno |-> first,
     end_lineno |-> last, body |-> body]
ClassDef(name, bases, first, last, body) ==
    [t |-> "ClassDef", name |-> name, bases |-> bases, lineno |-> first,
     end_lineno |-> last, body |-> body]
Module(body) == [t |-> "Module", body |-> body]

\* ast.iter_child_nodes: the child nodes in field order
Children(n) ==
    CASE n.t = "Module" -> n.body
      [] n.t \in {"FunctionDef", "AsyncFunctionDef"} -> n.body
      [] n.t = "ClassDef" -> n.bases \o n.body
      [] n.t \in {"Expr", "Return"} -> <<n.value>>
      [] n.t = "Call" -> <<n.func>> \o n.args
      [] n.t \in {"Attribute", "Subscript"} -> <<n.value>>
      [] OTHER -> <<>>

\* the nodes of the queue, then their children in the same order, and so
\* on: the order in which a first-in first-out queue hands them out
RECURSIVE WalkQueue(_)
WalkQueue(todo) ==
    IF todo = <<>> THEN <<>>
    ELSE todo \o WalkQueue(ConcatAll([i \in DOMAIN todo |-> Children(todo[i])]))

\* ast.walk(node): node and all its descendants, breadth first
Walk(node) == WalkQueue(<<node>>)

IsFunctionNode(n) == n.t \in {"FunctionDef", "AsyncFunctionDef"}

(***************************************************************************)
(* Source texts                                                            *)
(*                                                                         *)
(* A snippet is one top-level statement of a source text: k names the      *)
(* statement, n is the number of lines it spans.  Build gives the node     *)
(* ast.parse produces for a snippet that starts at line `first`.           *)
(*   import_os  import os                                                  *)
(*   from_qt    from PyQt5.QtWidgets import QWidget                        *)
(*   assign     x = 1                                                      *)
(*   pure       def calc(): ...; return helper(1)                          *)
(*   apure      async def fetch(): ...; return helper(1)                   *)
(*   ui1        def refresh(): ...; label.setText(1)                       *)
(*   ui3        def build(): QWidget(); w.show(); w.show(); w.setLayout(1) *)
(*   glob       def bump(): global counter; ...                            *)
(*   deep       def outer(): def inner(): nonlocal x; ...                  *)
(*   uiclass    class Win(QWidget): def area(self): return compute()       *)
(*                                  def open(self): self.show()            *)
(*   class      class Helper(object): def run(self): return compute()      *)
(*   nested     def factory(): import tkinter; class Inner(QDialog): pass  *)
(*   blank      blank or comment lines (no statement)                      *)
(*   import     import <module>                                            *)
(*   from       from <module> import <names>; `from . import <names>`      *)
(*              when module is empty                                       *)
(***************************************************************************)
Snippet(k, n) == [k |-> k, n |-> n]
ImportSnippet(module) == [k |-> "import", n |-> 1, module |-> module]
FromSnippet(module, names) ==
    [k |-> "from", n |-> 1, module |-> module, names |-> names]

\* a class with the given base expressions
ClassSnippet(bases, wrappers) ==
    [k |-> "classof", n |-> Len(wrappers) + 2, bases |-> bases,
     wrappers |-> wrappers]
\* a function whose body is the given expression statements, directly or
\* in a function defined inside it
CallSnippet(exprs, inner) ==
    [k |-> "calls", n |-> Len(exprs) + (IF inner THEN 2 ELSE 1),
     exprs |-> exprs, inner |-> inner]

\* class Shape(bases) inside the wrappers: "def" is a function definition
\* around it, "class" a class definition around it
RECURSIVE BuildNested(_, _, _, _)
BuildNested(wrappers, bases, first, last) ==
    IF wrappers = <<>> THEN ClassDef("Shape", bases, first, last, <<Pass>>)
    ELSE IF Head(wrappers) = "def"
    THEN FunctionDef("make", first, last,
             <<BuildNested(Tail(wrappers), bases, first + 1, last)>>)
    ELSE ClassDef("Outer", <<>>, first, last,
             <<BuildNested(Tail(wrappers), bases, first + 1, last)>>)

Build(d, first) ==
    LET last == first + d.n - 1 IN
    CASE d.k = "classof" -> BuildNested(d.wrappers, d.bases, first, last)
      [] d.k = "calls" ->
             FunctionDef("use", first, last,
                 IF d.inner
                 THEN <<FunctionDef("inner", first + 1, last,
                            [i \in DOMAIN d.exprs |-> ExprStmt(d.exprs[i])])>>
                 ELSE [i \in DOMAIN d.exprs |-> ExprStmt(d.exprs[i])])
      [] d.k = "import_os" ->
             ImportNode(<<Alias(<<"os">>, "")>>, first)
      [] d.k = "from_qt" ->
             ImportFromNode(<<"PyQt5", "QtWidgets">>, <<"QWidget">>, first)
      [] d.k = "import" ->
             ImportNode(<<Alias(d.module, "")>>, first)
      [] d.k = "from" ->
             ImportFromNode(d.module, d.names, first)
      [] d.k = "assign" -> Assign
      [] d.k = "pure" ->
             FunctionDef("calc", first, last,
                 <<Return(Call(Name("helper"), <<Literal>>))>>)
      [] d.k = "apure" ->
             AsyncFunctionDef("fetch", first, last,
                 <<Return(Call(Name("helper"), <<Literal>>))>>)
      [] d.k = "ui1" ->
             FunctionDef("refresh", first, last,
                 <<ExprStmt(Call(Attribute(Name("label"), "setText"),
                                 <<Literal>>))>>)
      [] d.k = "ui3" ->
             FunctionDef("build", first, last,
                 <<ExprStmt(Call(Name("QWidget"), <<>>)),
                   ExprStmt(Call(Attribute(Name("w"), "show"), <<>>)),
                   ExprStmt(Call(Attribute(Name("w"), "show"), <<>>)),
                   ExprStmt(Call(Attribute(Name("w"), "setLayout"),
                                 <<Literal>>))>>)
      [] d.k = "glob" ->
             FunctionDef("bump", first, last, <<Global, Assign>>)
      [] d.k = "deep" ->
             FunctionDef("outer", first, last,
                 <<FunctionDef("inner", first + 1, last,
                       <<Nonlocal, Assign>>)>>)
      [] d.k = "uiclass" ->
             ClassDef("Win", <<Name("QWidget")>>, first, last,
                 <<FunctionDef("area", first + 1, first + 1,
                       <<Return(Call(Name("compute"), <<>>))>>),
                   FunctionDef("open", first + 2, last,
                       <<ExprStmt(Call(Attribute(Name("self"), "show"),
                                       <<>>))>>)>>)
      [] d.k = "class" ->
             ClassDef("Helper", <<Name("object")>>, first, last,
                 <<FunctionDef("run", first + 1, last,
                       <<Return(Call(Name("compute"), <<>>))>>)>>)
      [] d.k = "nested" ->
             FunctionDef("factory", first, last,
                 <<ImportNode(<<Alias(<<"tkinter">>, "")>>, first + 1),
                   ClassDef("Inner", <<Name("QDialog")>>, first + 2, last,
                       <<Pass>>)>>)

\* the least number of lines a snippet of each kind takes
MinSpan(k) ==
    CASE k \in {"import_os", "from_qt", "assign", "blank", "import", "from"} -> 1
      [] k \in {"pure", "apure", "ui1", "glob", "class", "classof", "calls"} -> 2
      [] k \in {"deep", "uiclass", "nested"} -> 3
      [] k = "ui3" -> 5

\* A source text: ok tells whether it parses; stmts are its top-level
\* statements in order; a text that does not parse has `raw` lines.
Text(stmts) == [ok |-> TRUE, stmts |-> stmts, raw |-> 0]
BrokenText(raw) == [ok |-> FALSE, stmts |-> <<>>, raw |-> raw]

\* len(content.splitlines())
LineCount(content) ==
    IF content.ok THEN SumSeq([i \in DOMAIN content.stmts |-> content.stmts[i].n])
    ELSE content.raw

RECURSIVE Layout(_, _)
Layout(stmts, first) ==
    IF stmts = <<>> THEN <<>>
    ELSE (IF Head(stmts).k = "blank" THEN <<>> ELSE <<Build(Head(stmts), first)>>)
         \o Layout(Tail(stmts), first + Head(stmts).n)

\* ast.parse(content) of a text that parses
Parse(content) == Module(Layout(content.stmts, 1))

(***************************************************************************)
(* ImportDetector                                                          *)
(***************************************************************************)
RECURSIVE Join(_)
\* the dotted string of a sequence of name components
Join(c) ==
    IF c = <<>> THEN ""
    ELSE IF Len(c) = 1 THEN c[1] ELSE c[1] \o "." \o Join(Tail(c))

Import(module, names, is_ui, line_number) ==
    [module |-> module, names |-> names, is_ui |-> is_ui,
     line_number |-> line_number]

\* module_name in UI_FRAMEWORKS, or module_name.startswith(framework + ".")
is_ui_module(module_name) ==
    \/ Len(module_name) = 1 /\ module_name[1] \in FrameworkNames
    \/ \E framework \in FrameworkNames :
          Len(module_name) > 1 /\ module_name[1] = framework

\* every module under a framework taken as a UI submodule
is_ui_import_from_any_submodule(module_name, imported_names) ==
    \/ Len(module_name) = 1 /\ module_name[1] \in FrameworkNames
    \/ \E framework \in FrameworkNames :
          Len(module_name) > 1 /\ module_name[1] = framework
    \/ \E i \in DOMAIN imported_names : imported_names[i] \in UI_BASE_CLASSES

is_ui_import_from(module_name, imported_names) ==
    \/ Len(module_name) = 1 /\ module_name[1] \in FrameworkNames
    \/ \E framework \in FrameworkNames :
          /\ Len(module_name) > 1 /\ module_name[1] = framework
          /\ LET submodule_name == Join(Tail(module_name))
             IN  "*" \in UI_FRAMEWORKS[framework]
                 \/ submodule_name \in UI_FRAMEWORKS[framework]
    \/ \E i \in DOMAIN imported_names : imported_names[i] \in UI_BASE_CLASSES

\* one Import record per alias of an `import a, b as c` statement
process_import(node) ==
    [i \in DOMAIN node.names |->
        LET alias == node.names[i]
            module_name == Join(alias.name)
        IN  Import(module_name,
                   <<IF alias.asname # "" THEN alias.asname ELSE module_name>>,
                   is_ui_module(alias.name), node.lineno)]

\* a `from . import x` statement (no module) is not recorded
process_import_from(node) ==
    IF node.module = <<>> THEN <<>>
    ELSE <<Import(Join(node.module), node.names,
                  is_ui_import_from(node.module, node.names), node.lineno)>>

\* the records the loop of detect_imports appends to acc
CollectImports(acc, nodes) ==
    acc \o ConcatAll([i \in DOMAIN nodes |->
               CASE nodes[i].t = "Import" -> process_import(nodes[i])
                 [] nodes[i].t = "ImportFrom" -> process_import_from(nodes[i])
                 [] OTHER -> <<>>])

\* the list self.detected_imports starts from in detect_imports
ResetImportsKeep(previous) == previous
ResetImports(previous) == <<>>

\* detect_imports: previous is self.detected_imports before the call; the
\* result is both returned and left in self.detected_imports
detect_imports(previous, tree) ==
    CollectImports(ResetImports(previous), Walk(tree))

\* the module names the import statements of the texts use
ModuleNames ==
    {<<"os">>, <<"os", "path">>, <<"PyQt5">>, <<"PyQt5", "QtWidgets">>,
     <<"PyQt5", "QtSql">>, <<"PySide6", "QtCore", "Qt">>, <<"tkinter">>,
     <<"tkinter", "ttk">>, <<"tkinterdnd2">>, <<"wx">>}

\* the framework names that are string prefixes of a name without dots
FrameworkPrefixes(name) ==
    IF name \in FrameworkNames THEN {name}
    ELSE IF name = "tkinterdnd2" THEN {"tkinter"}
    ELSE {}

\* the dotted string of each module name, with its first component
ModuleTable == {<<Join(m), m[1]>> : m \in ModuleNames}

\* imp.module.startswith(framework): a framework name holds no dot, so it
\* is a prefix of the module iff it is one of its first component
ModuleStartsWith(module, framework) ==
    \E e \in ModuleTable :
        e[1] = module /\ framework \in FrameworkPrefixes(e[2])

\* the UI_FRAMEWORKS keys in dict order
FrameworkOrder == <<"PyQt5", "PyQt6", "PySide2", "PySide6", "tkinter", "wx">>

get_ui_frameworks_used(detected) ==
    {FrameworkOrder[k] : k \in
        {k \in DOMAIN FrameworkOrder :
            \E i \in DOMAIN detected :
               /\ detected[i].is_ui
               /\ ModuleStartsWith(detected[i].module, FrameworkOrder[k])
               /\ \A j \in 1..(k - 1) :
                     ~ModuleStartsWith(detected[i].module, FrameworkOrder[j])}}

(***************************************************************************)
(* ASTAnalyzer                                                             *)
(***************************************************************************)
RECURSIVE get_name(_)
RECURSIVE get_name_plain(_)
get_name_plain(node) ==
    CASE node.t = "Name" -> node.id
      [] node.t = "Attribute" ->
             LET parent == get_name_plain(node.value)
             IN  IF parent # "" THEN parent \o "." \o node.attr ELSE ""
      [] OTHER -> ""
get_name(node) ==
    CASE node.t = "Name" -> node.id
      [] node.t = "Attribute" ->
             LET parent == get_name(node.value)
             IN  IF parent # "" THEN parent \o "." \o node.attr ELSE node.attr
      [] node.t = "Call" -> get_name(node.func)
      [] OTHER -> ""

\* list(set(ui_usage)): the order of the list is that of a Python set and
\* is not modelled; the value is the set of tokens
detect_ui_usage_called_only(node) ==
    {get_name(child.func) :
        child \in {n \in Range(Walk(node)) :
                      n.t = "Call" /\ get_name(n.func) \in UI_BASE_CLASSES}}
    \cup
    {"." \o child.func.attr \o "()" :
        child \in {n \in Range(Walk(node)) :
                      /\ n.t = "Call"
                      /\ n.func.t = "Attribute"
                      /\ n.func.attr \in ui_methods}}
detect_ui_usage(node) ==
    {get_name(child.func) :
        child \in {n \in Range(Walk(node)) :
                      n.t = "Call" /\ get_name(n.func) \in UI_BASE_CLASSES}}
    \cup
    {"." \o child.attr \o "()" :
        child \in {n \in Range(Walk(node)) :
                      n.t = "Attribute" /\ n.attr \in ui_methods}}

\* callee names that start with "_" (none of the snippets calls one)
PrivateNames == {"_log"}

MaxDependencies == 10

\* list(set(dependencies))[:10]
detect_dependencies(node) ==
    LET all == {get_name(child.func) :
                  child \in {n \in Range(Walk(node)) :
                                /\ n.t = "Call"
                                /\ get_name(n.func) # ""
                                /\ get_name(n.func) \notin PrivateNames}}
    IN  IF Cardinality(all) <= MaxDependencies THEN all
        ELSE CHOOSE d \in SUBSET all : Cardinality(d) = MaxDependencies

\* the nodes _has_global_access looks at: all of ast.walk(node)
GlobalScanBodyOnly(node) == node.body
GlobalScan(node) == Walk(node)

has_global_access(node) ==
    \E child \in Range(GlobalScan(node)) : child.t \in {"Global", "Nonlocal"}

FunctionInfo(name, first, last, loc, is_pure, ui_usage, deps, hga) ==
    [name |-> name, start_line |-> first, end_line |-> last,
     loc |-> loc, is_pure |-> is_pure, ui_usage |-> ui_usage,
     dependencies |-> deps, has_global_access |-> hga]

IsPureIgnoringMethod(ui_usage, hga, is_method) ==
    Cardinality(ui_usage) = 0 /\ ~hga
IsPure(ui_usage, hga, is_method) ==
    Cardinality(ui_usage) = 0 /\ ~hga /\ ~is_method

analyze_function(node, is_method) ==
    LET start_line == node.lineno
        end_line == node.end_lineno
        loc == end_line - start_line + 1
        ui_usage == detect_ui_usage(node)
        dependencies == detect_dependencies(node)
        hga == has_global_access(node)
    IN  FunctionInfo(node.name, start_line, end_line, loc,
                     IsPure(ui_usage, hga, is_method),
                     ui_usage, dependencies, hga)

calculate_node_loc(node) == node.end_lineno - node.lineno + 1

ClassInfo(name, bases, is_ui_class, methods, loc, start_line, end_line) ==
    [name |-> name, bases |-> bases, is_ui_class |-> is_ui_class,
     methods |-> methods, loc |-> loc, start_line |-> start_line,
     end_line |-> end_line]

IsFunctionItem(item) == IsFunctionNode(item)

extract_class(node) ==
    LET bases == [i \in DOMAIN node.bases |-> get_name(node.bases[i])]
        is_ui_class == \E i \in DOMAIN bases : bases[i] \in UI_BASE_CLASSES
        items == SelectSeq(node.body, IsFunctionItem)
        methods == [i \in DOMAIN items |-> analyze_function(items[i], TRUE)]
    IN  ClassInfo(node.name, bases, is_ui_class, methods,
                  calculate_node_loc(node), node.lineno, node.end_lineno)

IsClassNode(n) == n.t = "ClassDef"

\* the class definitions directly in tree.body only
extract_classes_top_level(tree) ==
    LET nodes == SelectSeq(tree.body, IsClassNode)
    IN  [i \in DOMAIN nodes |-> extract_class(nodes[i])]
\* every ClassDef of ast.walk(tree), in walk order
extract_classes(tree) ==
    LET nodes == SelectSeq(Walk(tree), IsClassNode)
    IN  [i \in DOMAIN nodes |-> extract_class(nodes[i])]

\* the function definitions directly in tree.body
extract_functions(tree) ==
    LET nodes == SelectSeq(tree.body, IsFunctionNode)
    IN  [i \in DOMAIN nodes |-> analyze_function(nodes[i], FALSE)]

\* a float percentage, kept as the exact fraction num/den in lowest terms
Pct(num, den) ==
    LET g == Gcd(num, den) IN [num |-> num \div g, den |-> den \div g]
Zero == Pct(0, 1)
\* (ui_elements / total_elements) * 100; the float product compares with
\* 80 and 20 as the exact fraction does for every total below 2000
UiPercentage(ui_elements, total_elements) ==
    Pct(100 * ui_elements, total_elements)
PctGe(p, k) == p.num >= k * p.den
PctLe(p, k) == p.num <= k * p.den
PctGt(p, k) == p.num > k * p.den
PctLt(p, k) == p.num < k * p.den

HasUiUsage(f) == Cardinality(f.ui_usage) > 0
IsPureInfo(f) == f.is_pure
IsUiClassInfo(c) == c.is_ui_class

\* the classification with both thresholds exclusive
classify_file_strict(imports, classes, functions) ==
    LET has_ui_imports == \E i \in DOMAIN imports : imports[i].is_ui
        pure_functions == SelectSeq(functions, IsPureInfo)
        total_elements == Len(classes) + Len(functions)
        ui_elements == Len(SelectSeq(classes, IsUiClassInfo))
                       + Len(SelectSeq(functions, HasUiUsage))
        ui_percentage == UiPercentage(ui_elements, total_elements)
    IN  IF total_elements = 0
        THEN <<has_ui_imports, ~has_ui_imports, FALSE, Zero>>
        ELSE IF PctGt(ui_percentage, 80)
        THEN <<TRUE, FALSE, FALSE, ui_percentage>>
        ELSE IF PctLt(ui_percentage, 20) /\ Len(pure_functions) > 0
        THEN <<FALSE, TRUE, FALSE, ui_percentage>>
        ELSE <<FALSE, FALSE, TRUE, ui_percentage>>

\* the classification with the three flags set independently
classify_file_flags(imports, classes, functions) ==
    LET has_ui_imports == \E i \in DOMAIN imports : imports[i].is_ui
        pure_functions == SelectSeq(functions, IsPureInfo)
        total_elements == Len(classes) + Len(functions)
        ui_elements == Len(SelectSeq(classes, IsUiClassInfo))
                       + Len(SelectSeq(functions, HasUiUsage))
        ui_percentage == UiPercentage(ui_elements, total_elements)
    IN  IF total_elements = 0
        THEN <<has_ui_imports, ~has_ui_imports, FALSE, Zero>>
        ELSE <<PctGe(ui_percentage, 80),
               PctLe(ui_percentage, 20),
               ~PctGe(ui_percentage, 80)
                  /\ ~(PctLe(ui_percentage, 20) /\ Len(pure_functions) > 0),
               ui_percentage>>

\* the return for a file with only imports, or empty
NoElementsAlwaysLogic(has_ui_imports) == <<FALSE, TRUE, FALSE, Zero>>
NoElementsFlags(has_ui_imports) ==
    <<has_ui_imports, ~has_ui_imports, FALSE, Zero>>

\* _classify_file: <<is_ui_file, is_logic_file, is_mixed_file, ui_percentage>>
classify_file(imports, classes, functions) ==
    LET has_ui_imports == \E i \in DOMAIN imports : imports[i].is_ui
        pure_functions == SelectSeq(functions, IsPureInfo)
        total_elements == Len(classes) + Len(functions)
        ui_elements == Len(SelectSeq(classes, IsUiClassInfo))
                       + Len(SelectSeq(functions, HasUiUsage))
        ui_percentage == UiPercentage(ui_elements, total_elements)
    IN  IF total_elements = 0
        THEN NoElementsFlags(has_ui_imports)
        ELSE IF PctGe(ui_percentage, 80)
        THEN <<TRUE, FALSE, FALSE, ui_percentage>>
        ELSE IF PctLe(ui_percentage, 20) /\ Len(pure_functions) > 0
        THEN <<FALSE, TRUE, FALSE, ui_percentage>>
        ELSE <<FALSE, FALSE, TRUE, ui_percentage>>

FileAnalysis(path, imports, classes, functions, loc, flags) ==
    [path |-> path, imports |-> imports, classes |-> classes,
     functions |-> functions, loc |-> loc,
     is_ui_file |-> flags[1], is_logic_file |-> flags[2],
     is_mixed_file |-> flags[3], ui_percentage |-> flags[4]]

\* what analyze_file returns for a text that does not parse
SyntaxErrorAnalysisAsLogic(file_path, content) ==
    FileAnalysis(file_path, <<>>, <<>>, <<>>, LineCount(content),
                 <<FALSE, TRUE, FALSE, Zero>>)
SyntaxErrorAnalysis(file_path, content) ==
    FileAnalysis(file_path, <<>>, <<>>, <<>>, LineCount(content),
                 <<FALSE, FALSE, FALSE, Zero>>)

\* analyze_file on the analyzer whose import detector holds `previous` and
\* whose ui_frameworks is `frameworks`: the FileAnalysis returned and the
\* two fields after the call
analyze_file(previous, frameworks, file_path, content) ==
    IF ~content.ok
    THEN [result |-> SyntaxErrorAnalysis(file_path, content),
          detected_imports |-> previous, ui_frameworks |-> frameworks]
    ELSE LET tree == Parse(content)
             imports == detect_imports(previous, tree)
             classes == extract_classes(tree)
             functions == extract_functions(tree)
             loc == LineCount(content)
         IN  [result |-> FileAnalysis(file_path, imports, classes, functions,
                            loc, classify_file(imports, classes, functions)),
              detected_imports |-> imports,
              ui_frameworks |-> get_ui_frameworks_used(imports)]

(***************************************************************************)
(* AnalysisEngine                                                          *)
(***************************************************************************)
IsUiFile(f) == f.is_ui_file
IsLogicFile(f) == f.is_logic_file
IsMixedFile(f) == f.is_mixed_file
IsNotUiFile(f) == ~f.is_ui_file

ui_files_of(file_analyses) == SelectSeq(file_analyses, IsUiFile)
logic_files_of(file_analyses) == SelectSeq(file_analyses, IsLogicFile)
mixed_files_not_ui(file_analyses) == SelectSeq(file_analyses, IsNotUiFile)
mixed_files_of(file_analyses) == SelectSeq(file_analyses, IsMixedFile)

ExtractionSuggestion(file, func, reason, web_ready, estimated_effort) ==
    [file |-> file.path, function |-> func.name,
     start_line |-> func.start_line, end_line |-> func.end_line,
     reason |-> reason, web_ready |-> web_ready,
     estimated_effort |-> estimated_effort,
     dependencies |-> func.dependencies]

PureReason == [text |-> "Pure function with no UI dependencies", usages |-> {}]
MinimalReason(func) == [text |-> "Minimal UI usage", usages |-> func.ui_usage]

LowEffortCandidate(func) == func.is_pure /\ func.loc >= 3
MediumEffortAnyUsage(func) == ~func.is_pure /\ func.loc >= 5
MediumEffortCandidate(func) ==
    ~func.is_pure /\ Cardinality(func.ui_usage) <= 2 /\ func.loc >= 5

\* the suggestions of one file: the low-effort loop, then the medium one
file_extraction_suggestions(file) ==
    IF ~file.is_mixed_file THEN <<>>
    ELSE LET low == SelectSeq(file.functions, LowEffortCandidate)
             medium == SelectSeq(file.functions, MediumEffortCandidate)
         IN  [i \in DOMAIN low |->
                 ExtractionSuggestion(file, low[i], PureReason, TRUE, "low")]
             \o
             [i \in DOMAIN medium |->
                 ExtractionSuggestion(file, medium[i], MinimalReason(medium[i]),
                                      FALSE, "medium")]

generate_extraction_suggestions(file_analyses) ==
    ConcatAll([i \in DOMAIN file_analyses |->
                  file_extraction_suggestions(file_analyses[i])])

RefactoringSuggestion(file, issue, detail, priority) ==
    [file |-> file.path, issue |-> issue, detail |-> detail,
     priority |-> priority]

LargeUiClassFrom200(cls) == cls.is_ui_class /\ cls.loc >= 200
LargeUiClass(cls) == cls.is_ui_class /\ cls.loc > 200

SplitPriorityAbove3(pure_count) == IF pure_count > 3 THEN "high" ELSE "medium"
SplitPriority(pure_count) == IF pure_count >= 3 THEN "high" ELSE "medium"

file_refactoring_suggestions(file) ==
    LET pure_count == Len(SelectSeq(file.functions, IsPureInfo))
        ui_count == Len(SelectSeq(file.functions, HasUiUsage))
        large == SelectSeq(file.classes, LargeUiClass)
    IN  (IF file.is_mixed_file /\ pure_count > 0 /\ ui_count > 0
         THEN <<RefactoringSuggestion(file, "Mixed UI and business logic",
                    pure_count, SplitPriority(pure_count))>>
         ELSE <<>>)
        \o
        [i \in DOMAIN large |->
            RefactoringSuggestion(file, "Large UI class", large[i].loc, "medium")]

generate_refactoring_suggestions(file_analyses) ==
    ConcatAll([i \in DOMAIN file_analyses |->
                  file_refactoring_suggestions(file_analyses[i])])

\* the bases of the UI classes of the UI files, in encounter order
UiPatternBases(ui_files) ==
    ConcatAll([i \in DOMAIN ui_files |->
        ConcatAll([j \in DOMAIN ui_files[i].classes |->
            IF ui_files[i].classes[j].is_ui_class
            THEN ui_files[i].classes[j].bases ELSE <<>>])])

CountOf(x, s) == Cardinality({i \in DOMAIN s : s[i] = x})

\* common_patterns[0][0]: the most frequent base, the first encountered
\* among equally frequent ones; "" when there is none
MainFramework(ui_files) ==
    LET bases == UiPatternBases(ui_files) IN
    IF bases = <<>> THEN ""
    ELSE LET best == CHOOSE i \in DOMAIN bases :
                 /\ \A j \in DOMAIN bases :
                       CountOf(bases[j], bases) <= CountOf(bases[i], bases)
                 /\ \A j \in 1..(i - 1) :
                       CountOf(bases[j], bases) < CountOf(bases[i], bases)
         IN  bases[best]

\* logic_func_count
LogicFuncCount(logic_files) ==
    SumSeq([i \in DOMAIN logic_files |-> Len(logic_files[i].functions)])

\* if logic_func_count > 0
HasReusableLogicAnyFile(logic_files) == logic_files # <<>>
HasReusableLogic(logic_files) == LogicFuncCount(logic_files) > 0

generate_web_conversion_guide(ui_files, logic_files, mixed_files) ==
    LET logic_func_count == LogicFuncCount(logic_files)
        total_ui_classes ==
            SumSeq([i \in DOMAIN ui_files |-> Len(ui_files[i].classes)])
        main_framework == MainFramework(ui_files)
    IN  [web_ready_files |-> Len(logic_files),
         conversion_files |-> Len(ui_files) + Len(mixed_files),
         reusable_modules |-> [i \in DOMAIN logic_files |-> logic_files[i].path],
         ui_components_to_replace |-> [i \in DOMAIN ui_files |-> ui_files[i].path],
         estimated_complexity |->
             IF total_ui_classes > 20 THEN "high"
             ELSE IF total_ui_classes > 10 THEN "medium" ELSE "low",
         recommendations |->
             (IF HasReusableLogic(logic_files)
              THEN <<[kind |-> "reuse", count |-> logic_func_count,
                      files |-> Len(logic_files), framework |-> ""]>>
              ELSE <<>>)
             \o (IF mixed_files # <<>>
                 THEN <<[kind |-> "refactor", count |-> Len(mixed_files),
                         files |-> Len(mixed_files), framework |-> ""]>>
                 ELSE <<>>)
             \o (IF UiPatternBases(ui_files) # <<>>
                 THEN <<[kind |-> "framework", count |-> 0, files |-> 0,
                         framework |-> main_framework]>>
                 ELSE <<>>)]

\* the lines of every top-level function, pure or not
AllFunctionsLoc(f) == SumSeq([i \in DOMAIN f.functions |-> f.functions[i].loc])
PureLoc(f) ==
    LET pure == SelectSeq(f.functions, IsPureInfo)
    IN  SumSeq([i \in DOMAIN pure |-> pure[i].loc])

\* the lines a file adds to logic_loc
LogicLocFunctionsOnly(f) ==
    IF f.is_logic_file
    THEN SumSeq([i \in DOMAIN f.functions |-> f.functions[i].loc]) ELSE 0
LogicLoc(f) == IF f.is_logic_file THEN f.loc ELSE 0

\* the lines a file adds to mixed_loc
MixedLocAnyFile(f) == PureLoc(f)
MixedLoc(f) == IF f.is_mixed_file THEN PureLoc(f) ELSE 0

\* round(x, 2) of the percentage 100 * part / whole, in hundredths of a
\* percent (a tie between two hundredths needs whole >= 32 and is rounded up)
Round2(part, whole) == (20000 * part + whole) \div (2 * whole)

calculate_web_ready_percentage(file_analyses) ==
    LET total_loc == SumSeq([i \in DOMAIN file_analyses |-> file_analyses[i].loc])
        logic_loc == SumSeq([i \in DOMAIN file_analyses |->
                                LogicLoc(file_analyses[i])])
        mixed_loc == SumSeq([i \in DOMAIN file_analyses |->
                                MixedLoc(file_analyses[i])])
        web_ready_loc == logic_loc + mixed_loc
    IN  IF file_analyses = <<>> THEN 0
        ELSE IF total_loc = 0 THEN 0
        ELSE Round2(web_ready_loc, total_loc)

\* the ProjectAnalysisResult analyze_project builds after its loop
project_result_of(file_analyses, frameworks) ==
    LET ui_files == ui_files_of(file_analyses)
        logic_files == logic_files_of(file_analyses)
        mixed_files == mixed_files_of(file_analyses)
    IN  [total_files |-> Len(file_analyses),
         analysis_summary |->
            [total_loc |-> SumSeq([i \in DOMAIN file_analyses |->
                                      file_analyses[i].loc]),
             ui_files_count |-> Len(ui_files),
             logic_files_count |-> Len(logic_files),
             mixed_files_count |-> Len(mixed_files),
             total_classes |-> SumSeq([i \in DOMAIN file_analyses |->
                                          Len(file_analyses[i].classes)]),
             total_functions |-> SumSeq([i \in DOMAIN file_analyses |->
                                            Len(file_analyses[i].functions)]),
             ui_frameworks |-> frameworks,
             web_ready_percentage |->
                 calculate_web_ready_percentage(file_analyses)],
         ui_files |-> ui_files,
         logic_files |-> logic_files,
         mixed_files |-> mixed_files,
         extraction_suggestions |->
             generate_extraction_suggestions(file_analyses),
         refactoring_suggestions |->
             generate_refactoring_suggestions(file_analyses),
         web_conversion_guide |->
             generate_web_conversion_guide(ui_files, logic_files, mixed_files)]

\* the except clause of the per-file try: the loop goes on with the next file
FileErrorPropagates(file_analyses, i) ==
    [file_analyses |-> file_analyses, idx |-> i, pc |-> "raised"]
FileError(file_analyses, i) ==
    [file_analyses |-> file_analyses, idx |-> i + 1, pc |-> "loop"]

(***************************************************************************)
(* RedisCache: Python values, JSON texts and Redis keys                    *)
(***************************************************************************)
\* Python values handed to and returned by the cache
PyNone == [t |-> "None"]
PyBool(b) == [t |-> "bool", v |-> b]
PyStr(s) == [t |-> "str", v |-> s]
PyInt(n) == [t |-> "int", v |-> n]
PyDatetime == [t |-> "datetime"]
PyList(items) == [t |-> "list", items |-> items]
PyTuple(items) == [t |-> "tuple", items |-> items]
\* a dict, as its keys and its values in insertion order
PyDict(keys, vals) == [t |-> "dict", keys |-> keys, vals |-> vals]

\* JSON texts, as the documents they spell
JNull == [t |-> "null"]
JBool(b) == [t |-> "jbool", v |-> b]
JStr(s) == [t |-> "jstr", v |-> s]
JNum(n) == [t |-> "jnum", v |-> n]
JArr(items) == [t |-> "jarr", items |-> items]
JObj(keys, vals) == [t |-> "jobj", keys |-> keys, vals |-> vals]

\* json.dumps raises TypeError for a value the encoder does not know
RECURSIVE Serializable(_)
Serializable(v) ==
    CASE v.t \in {"None", "bool", "str", "int"} -> TRUE
      [] v.t \in {"list", "tuple"} ->
             \A i \in DOMAIN v.items : Serializable(v.items[i])
      [] v.t = "dict" ->
             /\ \A i \in DOMAIN v.keys : v.keys[i].t \in {"str", "int"}
             /\ \A i \in DOMAIN v.vals : Serializable(v.vals[i])
      [] OTHER -> FALSE

\* the member name json.dumps writes for a dict key
JsonKey(k) == IF k.t = "int" THEN ToString(k.v) ELSE k.v

\* json.dumps(v) of a value it can encode: lists and tuples both become
\* arrays, every dict key becomes a string
RECURSIVE json_dumps(_)
json_dumps(v) ==
    CASE v.t = "None" -> JNull
      [] v.t = "bool" -> JBool(v.v)
      [] v.t = "str" -> JStr(v.v)
      [] v.t = "int" -> JNum(v.v)
      [] v.t \in {"list", "tuple"} ->
             JArr([i \in DOMAIN v.items |-> json_dumps(v.items[i])])
      [] v.t = "dict" ->
             JObj([i \in DOMAIN v.keys |-> JsonKey(v.keys[i])],
                  [i \in DOMAIN v.vals |-> json_dumps(v.vals[i])])

\* json.loads(text)
RECURSIVE json_loads(_)
json_loads(j) ==
    CASE j.t = "null" -> PyNone
      [] j.t = "jbool" -> PyBool(j.v)
      [] j.t = "jstr" -> PyStr(j.v)
      [] j.t = "jnum" -> PyInt(j.v)
      [] j.t = "jarr" ->
             PyList([i \in DOMAIN j.items |-> json_loads(j.items[i])])
      [] j.t = "jobj" ->
             PyDict([i \in DOMAIN j.keys |-> PyStr(j.keys[i])],
                    [i \in DOMAIN j.vals |-> json_loads(j.vals[i])])

\* what redis.get returns for a key that does not exist
Nil == [t |-> "nil"]

\* the job ids and user ids of the calls
JobIds == {1, 2}
\* the WebSocket objects the endpoint receives, one per client connection
WebSockets == {1, 2, 3}
\* the messages the senders of the manager broadcast
Messages == {"progress", "completed"}
UserIds == {100}

\* f"analysis:result:{job_id}" and the other keys, as their parts
ResultKey(job_id) == <<"analysis", "result", job_id>>
ProgressKey(job_id) == <<"analysis", "progress", job_id>>
HistoryKey(user_id) == <<"user", "history", user_id>>
HitsKey == <<"stats", "cache_hits">>
MissesKey == <<"stats", "cache_misses">>

RedisKeys ==
    {ResultKey(j) : j \in JobIds} \cup {ProgressKey(j) : j \in JobIds}
    \cup {HistoryKey(u) : u \in UserIds} \cup {HitsKey, MissesKey}

\* keys written with setex: they expire when their time to live has run out
ExpiringKeys == RedisKeys \ {HitsKey, MissesKey}

\* scan_iter(match="analysis:*") and scan_iter(match="user:history:*")
MatchesAnalysis(key) == key[1] = "analysis"
MatchesUserHistory(key) == key[1] = "user" /\ key[2] = "history"

(***************************************************************************)
(* State                                                                   *)
(***************************************************************************)
VARIABLES
    detected_imports,  \* ImportDetector.detected_imports of the analyzer
    ui_frameworks,     \* ASTAnalyzer.ui_frameworks
    content,           \* the source text handed to analyze_file next
    analysis,          \* <<FileAnalysis>> returned for content, <<>> if none yet
    pc,                \* analyze_project: "idle", "loop", "done" or "raised"
    nfiles,            \* len(python_files)
    idx,               \* position of the loop in python_files, from 1
    file_analyses,     \* the list built by the loop
    project_result,    \* <<ProjectAnalysisResult>> returned, <<>> if none yet
    attempts,          \* per file tried in this run: its text, and whether analyze_file returned
    redis,             \* RedisCache._redis and its server: "none", "up" or "down"
    redis_data,        \* the keys of the Redis server: key -> value, Nil if absent
    cache_call,        \* the last RedisCache call: its name, argument and return value
    cached_for,        \* per job: the result last set with success and not removed since
    jobs,              \* the analysis_jobs table: per id the owner, NoUser once deleted
    sharings,          \* the rows of the AnalysisSharing table
    now,               \* datetime.utcnow()
    db_call,           \* the last call on the tables: its name and outcome
    active_connections,   \* ConnectionManager.active_connections: job_id -> websockets
    connection_metadata,  \* ConnectionManager.connection_metadata: websocket -> metadata
    connects,          \* the websockets the endpoint has passed to connect
    broadcasts,        \* per message: the broadcast_to_job call that carries it
    received,          \* per websocket: the messages send_json delivered to it
    job_rows,          \* per job of the table: its status and its progress
    tasks,             \* per job: where its run_analysis_background call is
    history_call       \* the last get_analysis_history call and its response

analyzer_vars == <<detected_imports, ui_frameworks>>
file_vars == <<content, analysis>>
project_vars == <<pc, nfiles, idx, file_analyses, project_result, attempts>>
engine_vars == <<analyzer_vars, file_vars, project_vars>>
cache_vars == <<redis, redis_data, cache_call, cached_for>>
db_vars == <<jobs, sharings, now, db_call>>
socket_vars == <<active_connections, connection_metadata, connects,
                 broadcasts, received>>
task_vars == <<job_rows, tasks, history_call>>
service_vars == <<cache_vars, db_vars, socket_vars, task_vars>>
vars == <<detected_imports, ui_frameworks, content, analysis,
          pc, nfiles, idx, file_analyses, project_result, attempts,
          redis, redis_data, cache_call, cached_for,
          jobs, sharings, now, db_call,
          active_connections, connection_metadata, connects,
          broadcasts, received,
          job_rows, tasks, history_call>>

\* the statements a text of the single-file specification is written from
FileSnippets ==
    {Snippet("from_qt", 1), Snippet("pure", 2), Snippet("ui1", 2),
     Snippet("deep", 3), Snippet("uiclass", 3), Snippet("class", 2),
     Snippet("nested", 3)}

\* the statements the files of a project are written from
ProjSnippets ==
    {Snippet("import_os", 1), Snippet("pure", 2), Snippet("pure", 5),
     Snippet("ui1", 6), Snippet("ui3", 6), Snippet("glob", 4),
     Snippet("glob", 5), Snippet("uiclass", 3), Snippet("from_qt", 1)}

\* the texts of at most n statements a file of a project can hold
ProjContents(n) ==
    {Text(stmts) : stmts \in SeqUpTo(ProjSnippets, n)}
    \cup {BrokenText(raw) : raw \in 1..MaxRawLines}

\* AnalysisEngine.__init__ / ASTAnalyzer.__init__ / ImportDetector.__init__
Init ==
    /\ detected_imports = <<>>
    /\ ui_frameworks = {}
    /\ content = Text(<<>>)
    /\ analysis = <<>>
    /\ pc = "idle"
    /\ nfiles = 0
    /\ idx = 0
    /\ file_analyses = <<>>
    /\ project_result = <<>>
    /\ attempts = <<>>
    /\ redis = "none"
    /\ redis_data = [key \in RedisKeys |-> Nil]
    /\ cache_call = [op |-> "none", arg |-> 0, ret |-> PyNone]
    /\ cached_for = [job_id \in JobIds |-> PyNone]
    /\ jobs = <<>>
    /\ sharings = {}
    /\ now = 0
    /\ db_call = [op |-> "none", ret |-> "none"]
    /\ active_connections = [job_id \in {} |-> {}]
    /\ connection_metadata = [websocket \in {} |-> {}]
    /\ connects = {}
    /\ broadcasts = [message \in {} |-> {}]
    /\ received = [websocket \in WebSockets |-> {}]
    /\ job_rows = <<>>
    /\ tasks = <<>>
    /\ history_call = [user_id |-> 0, limit |-> 0, cached |-> FALSE,
                       returned |-> <<>>, rows |-> <<>>]

(***************************************************************************)
(* analyze_file on texts written statement by statement                    *)
(***************************************************************************)
\* the path of the text analyzed on its own
FilePath == 0

\* the environment adds a statement to the text
WriteStmt(d) ==
    /\ analysis = <<>>
    /\ content.ok
    /\ Len(content.stmts) < MaxStmts
    /\ content' = Text(Append(content.stmts, d))
    /\ UNCHANGED analysis
    /\ UNCHANGED analyzer_vars
    /\ UNCHANGED project_vars
    /\ UNCHANGED service_vars

\* the environment makes the text one that does not parse
BreakText(raw) ==
    /\ analysis = <<>>
    /\ content.ok
    /\ content' = BrokenText(raw)
    /\ UNCHANGED analysis
    /\ UNCHANGED analyzer_vars
    /\ UNCHANGED project_vars
    /\ UNCHANGED service_vars

\* analyzer.analyze_file(path, content)
AnalyzeFile ==
    /\ analysis = <<>>
    /\ \E r \in {analyze_file(detected_imports, ui_frameworks, FilePath, content)} :
           /\ analysis' = <<r.result>>
           /\ detected_imports' = r.detected_imports
           /\ ui_frameworks' = r.ui_frameworks
    /\ UNCHANGED content
    /\ UNCHANGED project_vars
    /\ UNCHANGED service_vars

\* the environment starts the next text, for a newly constructed analyzer
NewText ==
    /\ analysis # <<>>
    /\ content' = Text(<<>>)
    /\ analysis' = <<>>
    /\ detected_imports' = <<>>
    /\ ui_frameworks' = {}
    /\ UNCHANGED project_vars
    /\ UNCHANGED service_vars

NextFile ==
    \/ \E d \in FileSnippets : WriteStmt(d)
    \/ \E raw \in 0..MaxRawLines : BreakText(raw)
    \/ AnalyzeFile
    \/ NewText

SpecFile == Init /\ [][NextFile]_vars

(***************************************************************************)
(* analyze_project                                                         *)
(***************************************************************************)
\* analyze_project is called: the files are discovered, the loop starts
StartProject(n) ==
    /\ pc = "idle"
    /\ pc' = "loop"
    /\ nfiles' = n
    /\ idx' = 1
    /\ file_analyses' = <<>>
    /\ project_result' = <<>>
    /\ attempts' = <<>>
    /\ UNCHANGED analyzer_vars
    /\ UNCHANGED file_vars
    /\ UNCHANGED service_vars

\* statements of the files read so far in this run
StmtsRead == SumSeq([i \in DOMAIN attempts |-> Len(attempts[i].text.stmts)])

\* one iteration of the loop: the file holds text c and analyze_file returns
AnalyzeNext(c) ==
    /\ pc = "loop"
    /\ idx <= nfiles
    /\ \E r \in {analyze_file(detected_imports, ui_frameworks, idx, c)} :
           /\ file_analyses' = Append(file_analyses, r.result)
           /\ detected_imports' = r.detected_imports
           /\ ui_frameworks' = r.ui_frameworks
           /\ attempts' = Append(attempts, [ok |-> TRUE, text |-> c])
    /\ idx' = idx + 1
    /\ UNCHANGED <<pc, nfiles, project_result>>
    /\ UNCHANGED file_vars
    /\ UNCHANGED service_vars

\* the text recorded for a file that could not be read
Unreadable == BrokenText(0)

\* one iteration of the loop: analyze_file raises (the file cannot be
\* opened or decoded) before the analyzer has changed
AnalyzeNextRaises ==
    /\ pc = "loop"
    /\ idx <= nfiles
    /\ LET h == FileError(file_analyses, idx)
       IN  /\ file_analyses' = h.file_analyses
           /\ idx' = h.idx
           /\ pc' = h.pc
    /\ attempts' = Append(attempts, [ok |-> FALSE, text |-> Unreadable])
    /\ UNCHANGED <<nfiles, project_result>>
    /\ UNCHANGED analyzer_vars
    /\ UNCHANGED file_vars
    /\ UNCHANGED service_vars

\* the loop is over: the result is assembled and returned
FinishProject ==
    /\ pc = "loop"
    /\ idx > nfiles
    /\ project_result' = <<project_result_of(file_analyses, ui_frameworks)>>
    /\ pc' = "done"
    /\ UNCHANGED <<nfiles, idx, file_analyses, attempts>>
    /\ UNCHANGED analyzer_vars
    /\ UNCHANGED file_vars
    /\ UNCHANGED service_vars

Next ==
    \/ \E n \in 0..MaxFiles : StartProject(n)
    \/ \E c \in ProjContents(MaxProjStmts - StmtsRead) : AnalyzeNext(c)
    \/ AnalyzeNextRaises
    \/ FinishProject

Spec == Init /\ [][Next]_vars

(***************************************************************************)
(* What a source text contains, read off its statements                    *)
(***************************************************************************)
IsFunctionSnippet(d) ==
    d.k \in {"pure", "apure", "ui1", "ui3", "glob", "deep", "nested"}
\* the statement holds a global or nonlocal declaration, at some depth
DeclaresGlobal(d) == d.k \in {"glob", "deep"}
\* class definitions in the statement, at any depth
ClassDefsIn(d) == IF d.k \in {"uiclass", "class", "nested"} THEN 1 ELSE 0
FunctionSnippets(text) == SelectSeq(text.stmts, IsFunctionSnippet)
NumClassDefs(text) ==
    SumSeq([i \in DOMAIN text.stmts |-> ClassDefsIn(text.stmts[i])])

NumElements(fa) == Len(fa.classes) + Len(fa.functions)
NumUiElements(fa) ==
    Cardinality({i \in DOMAIN fa.classes : fa.classes[i].is_ui_class})
    + Cardinality({i \in DOMAIN fa.functions : fa.functions[i].ui_usage # {}})
HasPureFunction(fa) == \E i \in DOMAIN fa.functions : fa.functions[i].is_pure
NumFlags(fa) ==
    (IF fa.is_ui_file THEN 1 ELSE 0) + (IF fa.is_logic_file THEN 1 ELSE 0)
    + (IF fa.is_mixed_file THEN 1 ELSE 0)

(***************************************************************************)
(* Properties of analyze_file (specification SpecFile)                     *)
(***************************************************************************)
\* C1: every FileAnalysis returned with at least one class or top-level
\* function has exactly one of is_ui_file, is_logic_file, is_mixed_file set.
C1_ExactlyOneFlag ==
    analysis # <<>> /\ NumElements(analysis[1]) > 0
        => NumFlags(analysis[1]) = 1

\* a file with elements, at most 20% of them UI and no pure function
C1_Witness ==
    /\ analysis # <<>>
    /\ NumElements(analysis[1]) >= 2
    /\ 100 * NumUiElements(analysis[1]) <= 20 * NumElements(analysis[1])
    /\ ~HasPureFunction(analysis[1])
    /\ analysis[1].is_mixed_file

\* C2: with total = classes + top-level functions > 0 and ui = UI classes +
\* functions with UI usage, the file is UI iff 100*ui/total >= 80, Logic iff
\* 100*ui/total <= 20 and a pure function exists, Mixed otherwise.
C2_Thresholds ==
    analysis # <<>> /\ NumElements(analysis[1]) > 0
        => LET fa == analysis[1]
               isUi == 100 * NumUiElements(fa) >= 80 * NumElements(fa)
               isLogic == /\ 100 * NumUiElements(fa) <= 20 * NumElements(fa)
                          /\ HasPureFunction(fa)
           IN  /\ fa.is_ui_file <=> isUi
               /\ fa.is_logic_file <=> isLogic
               /\ fa.is_mixed_file <=> (~isUi /\ ~isLogic)

\* exactly 80% UI elements: a UI file
C2_Witness ==
    /\ analysis # <<>>
    /\ NumElements(analysis[1]) = 5
    /\ NumUiElements(analysis[1]) = 4
    /\ analysis[1].is_ui_file

\* exactly 20% UI elements and a pure function: a Logic file
C2_WitnessLogic ==
    /\ analysis # <<>>
    /\ NumElements(analysis[1]) = 5
    /\ NumUiElements(analysis[1]) = 1
    /\ HasPureFunction(analysis[1])
    /\ analysis[1].is_logic_file

\* exactly 20% UI elements and no pure function: a Mixed file
C2_WitnessMixed ==
    /\ analysis # <<>>
    /\ NumElements(analysis[1]) = 5
    /\ NumUiElements(analysis[1]) = 1
    /\ ~HasPureFunction(analysis[1])
    /\ analysis[1].is_mixed_file

\* C3: a top-level function record is pure iff its ui_usage is empty and its
\* body holds no global or nonlocal declaration at any depth; a method record
\* is never pure.
C3_Purity ==
    analysis # <<>> /\ content.ok
        => LET fa == analysis[1]
               defs == FunctionSnippets(content)
           IN  /\ Len(fa.functions) = Len(defs)
               /\ \A i \in DOMAIN fa.functions :
                     fa.functions[i].is_pure
                        <=> (fa.functions[i].ui_usage = {}
                             /\ ~DeclaresGlobal(defs[i]))
               /\ \A i \in DOMAIN fa.classes :
                     \A j \in DOMAIN fa.classes[i].methods :
                        ~fa.classes[i].methods[j].is_pure

\* a function whose nonlocal declaration sits in a nested function, and a
\* method without UI usage or global access, both reported as not pure
C3_Witness ==
    /\ analysis # <<>>
    /\ content.ok
    /\ \E i \in DOMAIN analysis[1].functions :
          /\ FunctionSnippets(content)[i].k = "deep"
          /\ analysis[1].functions[i].ui_usage = {}
          /\ ~analysis[1].functions[i].is_pure
    /\ \E i \in DOMAIN analysis[1].classes :
          \E j \in DOMAIN analysis[1].classes[i].methods :
             /\ analysis[1].classes[i].methods[j].ui_usage = {}
             /\ ~analysis[1].classes[i].methods[j].has_global_access
             /\ ~analysis[1].classes[i].methods[j].is_pure

\* C7: for a text that does not parse, analyze_file returns a FileAnalysis
\* with empty imports, classes and functions, the three flags false,
\* ui_percentage 0.0 and loc the raw number of lines.
C7_SyntaxError ==
    analysis # <<>> /\ ~content.ok
        => /\ analysis[1].imports = <<>>
           /\ analysis[1].classes = <<>>
           /\ analysis[1].functions = <<>>
           /\ ~analysis[1].is_ui_file
           /\ ~analysis[1].is_logic_file
           /\ ~analysis[1].is_mixed_file
           /\ analysis[1].ui_percentage = Zero
           /\ analysis[1].loc = content.raw

C7_Witness ==
    /\ analysis # <<>>
    /\ ~content.ok
    /\ content.raw = 2
    /\ analysis[1].loc = 2

(***************************************************************************)
(* Properties of analyze_project (specification Spec)                      *)
(***************************************************************************)
IsOkAttempt(a) == a.ok
\* the texts of the files whose analysis returned, in order
ReturnedTexts ==
    LET oks == SelectSeq(attempts, IsOkAttempt)
    IN  [i \in DOMAIN oks |-> oks[i].text]
Done == pc = "done" /\ project_result # <<>>
Summary == project_result[1].analysis_summary
\* lines counted as web-ready: Logic files in full, pure top-level
\* functions of Mixed files
WebReadyLines ==
    SumSeq([i \in DOMAIN file_analyses |->
        IF file_analyses[i].is_logic_file THEN file_analyses[i].loc
        ELSE IF file_analyses[i].is_mixed_file THEN PureLoc(file_analyses[i])
        ELSE 0])
TotalLines == SumSeq([i \in DOMAIN file_analyses |-> file_analyses[i].loc])
AllLogicNoUiImports ==
    \A i \in DOMAIN file_analyses :
        /\ file_analyses[i].is_logic_file
        /\ \A j \in DOMAIN file_analyses[i].imports :
              ~file_analyses[i].imports[j].is_ui
\* 100.0, in hundredths of a percent
Hundred == 100 * 100

\* C4: the web_ready_percentage of a project result lies in [0, 100], and
\* the lines counted as web-ready never exceed the lines of all files.
C4_WebReadyBounds ==
    Done => /\ Summary.web_ready_percentage >= 0
            /\ Summary.web_ready_percentage <= Hundred
            /\ WebReadyLines <= TotalLines

\* a Mixed file with a pure function next to another file
C4_Witness ==
    /\ Done
    /\ Len(file_analyses) = 2
    /\ \E i \in DOMAIN file_analyses :
          file_analyses[i].is_mixed_file /\ PureLoc(file_analyses[i]) > 0
    /\ Summary.web_ready_percentage > 0
    /\ Summary.web_ready_percentage < Hundred

\* C5 as stated: when every analyzed file is a Logic file without UI
\* imports, web_ready_percentage is exactly 100.0.
C5_AllLogicIsHundred ==
    Done /\ Len(file_analyses) >= 1 /\ AllLogicNoUiImports
        => Summary.web_ready_percentage = Hundred

\* C5 amended: when every analyzed file is a Logic file without UI imports,
\* web_ready_percentage is 100.0 if the files hold at least one line in
\* total, and 0.0 if they hold none.
C5_AllLogicIsHundredIfLines ==
    Done /\ AllLogicNoUiImports
        => Summary.web_ready_percentage =
              (IF TotalLines > 0 THEN Hundred ELSE 0)

\* two Logic files, one with a line outside its function
C5_Witness ==
    /\ Done
    /\ Len(file_analyses) = 2
    /\ AllLogicNoUiImports
    /\ \E i \in DOMAIN file_analyses :
          /\ file_analyses[i].imports # <<>>
          /\ file_analyses[i].functions # <<>>
    /\ Summary.web_ready_percentage = Hundred

\* C6: a file whose analysis raises is skipped and the other files are
\* still analyzed: no exception leaves analyze_project, every discovered
\* file is tried, and total_files, total_loc, total_classes and
\* total_functions cover exactly the files whose analysis returned.
C6_SkipsFailedFile ==
    /\ pc # "raised"
    /\ Done =>
         LET texts == ReturnedTexts IN
         /\ Len(attempts) = nfiles
         /\ project_result[1].total_files = Len(texts)
         /\ Summary.total_loc =
               SumSeq([i \in DOMAIN texts |-> LineCount(texts[i])])
         /\ Summary.total_classes =
               SumSeq([i \in DOMAIN texts |-> NumClassDefs(texts[i])])
         /\ Summary.total_functions =
               SumSeq([i \in DOMAIN texts |-> Len(FunctionSnippets(texts[i]))])

\* the first file raises, the second one is analyzed and reported
C6_Witness ==
    /\ Done
    /\ Len(attempts) = 2
    /\ ~attempts[1].ok
    /\ attempts[2].ok
    /\ project_result[1].total_files = 1
    /\ Summary.total_classes = 1
    /\ Summary.total_functions = 1

InList(f, list) == \E k \in DOMAIN list : list[k] = f
ListsHolding(f) ==
    (IF InList(f, project_result[1].ui_files) THEN 1 ELSE 0)
    + (IF InList(f, project_result[1].logic_files) THEN 1 ELSE 0)
    + (IF InList(f, project_result[1].mixed_files) THEN 1 ELSE 0)
NumUnparsed ==
    Cardinality({i \in DOMAIN ReturnedTexts : ~ReturnedTexts[i].ok})

\* C8 as stated: every file counted in total_files is in exactly one of
\* ui_files, logic_files and mixed_files, and the three counts add up to
\* total_files.
C8_ListsPartition ==
    Done => /\ \A i \in DOMAIN file_analyses :
                  ListsHolding(file_analyses[i]) = 1
            /\ Summary.ui_files_count + Summary.logic_files_count
                  + Summary.mixed_files_count = project_result[1].total_files

\* C8 amended: a file counted in total_files is in exactly one of the three
\* lists if its text parsed and in none if it did not; the three counts add
\* up to total_files minus the number of files that did not parse.
C8_ListsPartitionParsed ==
    Done => /\ \A i \in DOMAIN file_analyses :
                  ListsHolding(file_analyses[i]) =
                      (IF ReturnedTexts[i].ok THEN 1 ELSE 0)
            /\ Summary.ui_files_count + Summary.logic_files_count
                  + Summary.mixed_files_count
                  = project_result[1].total_files - NumUnparsed

\* a Logic file and a file that does not parse
C8_Witness ==
    /\ Done
    /\ project_result[1].total_files = 2
    /\ NumUnparsed = 1
    /\ Summary.logic_files_count = 1
    /\ Summary.ui_files_count + Summary.mixed_files_count = 0

SuggestionsFor(file, func) ==
    LET all == project_result[1].extraction_suggestions
    IN  {k \in DOMAIN all : all[k].file = file.path
                            /\ all[k].start_line = func.start_line}

\* C9: suggestions come only from top-level functions of Mixed files; such
\* a function yields one "low", web_ready suggestion iff it is pure with
\* loc >= 3, one "medium", not web_ready suggestion iff it is not pure with
\* at most 2 ui_usage entries and loc >= 5, and none otherwise.
C9_ExtractionSuggestions ==
    Done =>
      LET all == project_result[1].extraction_suggestions IN
      /\ \A k \in DOMAIN all :
            \E i \in DOMAIN file_analyses :
               /\ file_analyses[i].is_mixed_file
               /\ all[k].file = file_analyses[i].path
               /\ \E j \in DOMAIN file_analyses[i].functions :
                     all[k].start_line = file_analyses[i].functions[j].start_line
      /\ \A i \in DOMAIN file_analyses :
            \A j \in DOMAIN file_analyses[i].functions :
               LET file == file_analyses[i]
                   func == file.functions[j]
                   got == SuggestionsFor(file, func)
                   low == file.is_mixed_file /\ func.is_pure /\ func.loc >= 3
                   medium == /\ file.is_mixed_file /\ ~func.is_pure
                             /\ Cardinality(func.ui_usage) <= 2
                             /\ func.loc >= 5
               IN  /\ Cardinality(got) = IF low \/ medium THEN 1 ELSE 0
                   /\ \A k \in got :
                         /\ all[k].function = func.name
                         /\ all[k].web_ready = low
                         /\ all[k].estimated_effort =
                               IF low THEN "low" ELSE "medium"

\* a Mixed file with a pure function and a function using one UI method:
\* one low and one medium suggestion
C9_Witness ==
    /\ Done
    /\ Len(file_analyses) = 1
    /\ file_analyses[1].is_mixed_file
    /\ Len(file_analyses[1].functions) = 2
    /\ \E j \in 1..2 : /\ file_analyses[1].functions[j].is_pure
                       /\ file_analyses[1].functions[j].loc = 5
    /\ \E j \in 1..2 : /\ Cardinality(file_analyses[1].functions[j].ui_usage) = 1
                       /\ file_analyses[1].functions[j].loc = 6
    /\ Len(project_result[1].extraction_suggestions) = 2
    /\ project_result[1].extraction_suggestions[1].estimated_effort = "low"
    /\ project_result[1].extraction_suggestions[2].estimated_effort = "medium"

\* a FileAnalysis without its path
Unpathed(fa) == [fa EXCEPT !.path = 0]

\* C10: analyze_file on the same text returns equal FileAnalysis values on
\* the same analyzer, whatever it analyzed before: two files of a run with
\* the same text get equal analyses (up to the path), and the analysis just
\* returned is the one a new analyzer returns for the text.
C10_Deterministic ==
    \A texts \in {ReturnedTexts} :
       /\ \A i, j \in DOMAIN file_analyses :
             texts[i] = texts[j]
                 => Unpathed(file_analyses[i]) = Unpathed(file_analyses[j])
       /\ file_analyses # <<>> =>
             LET last == Len(file_analyses)
             IN  file_analyses[last] =
                    analyze_file(<<>>, {}, file_analyses[last].path,
                                 texts[last]).result

\* the same text, with an import, analyzed twice
C10_Witness ==
    /\ Len(file_analyses) = 2
    /\ ReturnedTexts[1] = ReturnedTexts[2]
    /\ file_analyses[1].imports # <<>>
    /\ file_analyses[2].imports = file_analyses[1].imports

(***************************************************************************)
(* Projects of files with many functions and large classes                 *)
(* (specification SpecRefactor)                                            *)
(***************************************************************************)
\* pure top-level functions of a file
MaxPure == 4

\* k copies of a statement
Repeat(d, k) == [i \in 1..k |-> d]

\* with or without a top-level function that calls a UI method
UiFunctionChoices == {<<>>, <<Snippet("ui1", 2)>>}

\* without a class, or with one class around the 200-line mark
ClassChoices ==
    {<<>>, <<Snippet("uiclass", 200)>>, <<Snippet("uiclass", 201)>>,
     <<Snippet("class", 201)>>}

RefactorContents ==
    {Text(Repeat(Snippet("pure", 3), p) \o u \o c) :
        p \in 0..MaxPure, u \in UiFunctionChoices, c \in ClassChoices}

NextRefactor ==
    \/ \E n \in 0..MaxFiles : StartProject(n)
    \/ \E c \in RefactorContents : AnalyzeNext(c)
    \/ FinishProject

SpecRefactor == Init /\ [][NextRefactor]_vars

IsPureSnippet(d) == d.k \in {"pure", "apure"}
IsUiFunctionSnippet(d) == d.k \in {"ui1", "ui3"}
NumPureSnippets(text) == Len(SelectSeq(text.stmts, IsPureSnippet))
NumUiFunctionSnippets(text) == Len(SelectSeq(text.stmts, IsUiFunctionSnippet))

\* the refactoring suggestions of the result for the file at `path`
SplitSuggestions(path) ==
    LET all == project_result[1].refactoring_suggestions
    IN  {i \in DOMAIN all :
            all[i].file = path /\ all[i].issue = "Mixed UI and business logic"}
ClassSuggestions(path) ==
    LET all == project_result[1].refactoring_suggestions
    IN  {i \in DOMAIN all :
            all[i].file = path /\ all[i].issue = "Large UI class"}

\* C11: a file gets a file-split suggestion iff it is Mixed and its text
\* has a pure top-level function and a top-level function with UI usage;
\* a qualifying file gets exactly one, of priority "high" iff it has three
\* or more pure functions and "medium" otherwise.
C11_FileSplit ==
    Done =>
      \A texts \in {ReturnedTexts} :
        \A i \in DOMAIN file_analyses :
          LET fa == file_analyses[i]
              pure_count == NumPureSnippets(texts[i])
              qualifies == /\ fa.is_mixed_file
                           /\ pure_count > 0
                           /\ NumUiFunctionSnippets(texts[i]) > 0
              found == SplitSuggestions(fa.path)
          IN  /\ Cardinality(found) = (IF qualifies THEN 1 ELSE 0)
              /\ \A k \in found :
                    project_result[1].refactoring_suggestions[k].priority =
                        (IF pure_count >= 3 THEN "high" ELSE "medium")

\* a Mixed file with three pure functions gets a "high" suggestion, another
\* with fewer gets a "medium" one
C11_Witness ==
    /\ Done
    /\ \E k \in DOMAIN project_result[1].refactoring_suggestions :
          /\ project_result[1].refactoring_suggestions[k].issue =
                "Mixed UI and business logic"
          /\ project_result[1].refactoring_suggestions[k].priority = "high"
    /\ \E k \in DOMAIN project_result[1].refactoring_suggestions :
          /\ project_result[1].refactoring_suggestions[k].issue =
                "Mixed UI and business logic"
          /\ project_result[1].refactoring_suggestions[k].priority = "medium"

IsClassSnippet(d) == d.k \in {"uiclass", "class"}
IsLargeUiClassSnippet(d) == d.k = "uiclass" /\ d.n > 200

\* C12: a class gets a decomposition suggestion, of priority "medium", iff
\* it is a UI class of more than 200 lines, whatever the classification of
\* its file; a UI class of exactly 200 lines and a class that is not a UI
\* class get none.
C12_LargeUiClass ==
    Done =>
      \A texts \in {ReturnedTexts} :
        \A i \in DOMAIN file_analyses :
          LET found == ClassSuggestions(file_analyses[i].path)
          IN  /\ Cardinality(found) =
                    Len(SelectSeq(texts[i].stmts, IsLargeUiClassSnippet))
              /\ \A k \in found :
                    project_result[1].refactoring_suggestions[k].priority =
                        "medium"

\* a 201-line UI class in a Mixed file is suggested for decomposition; a
\* 200-line UI class in another file is not
C12_Witness ==
    /\ Done
    /\ Len(file_analyses) = 2
    /\ \E i \in DOMAIN file_analyses :
          /\ file_analyses[i].is_mixed_file
          /\ ClassSuggestions(file_analyses[i].path) # {}
    /\ \E i \in DOMAIN file_analyses :
          /\ \E j \in DOMAIN file_analyses[i].classes :
                /\ file_analyses[i].classes[j].is_ui_class
                /\ file_analyses[i].classes[j].loc = 200
          /\ ClassSuggestions(file_analyses[i].path) = {}

(***************************************************************************)
(* Files without classes and functions (specification Spec)                *)
(***************************************************************************)
IsPlainSnippet(d) == d.k \in {"import_os", "from_qt", "assign", "blank"}
\* the text parses and holds no class and no function definition
OnlyPlainStatements(text) ==
    text.ok /\ \A k \in DOMAIN text.stmts : IsPlainSnippet(text.stmts[k])
HasUiImportStatement(text) ==
    \E k \in DOMAIN text.stmts : text.stmts[k].k = "from_qt"

\* C13: a file that parses and has no class and no top-level function is
\* a UI file iff one of its imports is a UI import and a Logic file
\* otherwise; it is never Mixed and its ui_percentage is 0.0.
C13_NoElements ==
    \A texts \in {ReturnedTexts} :
      \A i \in DOMAIN file_analyses :
        OnlyPlainStatements(texts[i]) =>
          /\ file_analyses[i].is_ui_file = HasUiImportStatement(texts[i])
          /\ file_analyses[i].is_logic_file = ~HasUiImportStatement(texts[i])
          /\ ~file_analyses[i].is_mixed_file
          /\ file_analyses[i].ui_percentage = Zero

\* a file of imports with a UI import next to a file with only `import os`
C13_Witness ==
    /\ Len(file_analyses) = 2
    /\ \E i, j \in DOMAIN file_analyses :
          /\ OnlyPlainStatements(ReturnedTexts[i])
          /\ OnlyPlainStatements(ReturnedTexts[j])
          /\ file_analyses[i].imports # <<>>
          /\ file_analyses[i].is_ui_file
          /\ file_analyses[j].imports # <<>>
          /\ file_analyses[j].is_logic_file

(***************************************************************************)
(* Texts of import statements (specification SpecImports)                  *)
(***************************************************************************)
\* import statements of a text
MaxImports == 2

ImportedNames == {<<"join">>, <<"QWidget">>, <<"join", "QLabel">>}

ImportSnippets ==
    {ImportSnippet(m) : m \in ModuleNames}
    \cup {FromSnippet(m, names) :
             m \in ModuleNames \cup {<<>>}, names \in ImportedNames}

\* the environment adds an import statement to the text
WriteImport(d) ==
    /\ analysis = <<>>
    /\ Len(content.stmts) < MaxImports
    /\ content' = Text(Append(content.stmts, d))
    /\ UNCHANGED analysis
    /\ UNCHANGED analyzer_vars
    /\ UNCHANGED project_vars
    /\ UNCHANGED service_vars

NextImports ==
    \/ \E d \in ImportSnippets : WriteImport(d)
    \/ AnalyzeFile
    \/ NewText

SpecImports == Init /\ [][NextImports]_vars

\* a statement that names a module (`from . import x` names none)
NamesModule(d) == d.module # <<>>
IsFrameworkName(m) == Len(m) = 1 /\ m[1] \in FrameworkNames
IsFrameworkDescendant(m) == Len(m) > 1 /\ m[1] \in FrameworkNames
\* the part of a dotted module name after its first dot
AfterFirstDot(m) == Join(Tail(m))
ExpectedIsUi(d) ==
    IF d.k = "import"
    THEN IsFrameworkName(d.module) \/ IsFrameworkDescendant(d.module)
    ELSE \/ IsFrameworkName(d.module)
         \/ /\ IsFrameworkDescendant(d.module)
            /\ \/ "*" \in UI_FRAMEWORKS[d.module[1]]
               \/ AfterFirstDot(d.module) \in UI_FRAMEWORKS[d.module[1]]
         \/ \E k \in DOMAIN d.names : d.names[k] \in UI_BASE_CLASSES

\* C14: the is_ui flag of an import record: for `import X`, X is a
\* framework name or begins with a framework name and a dot; for
\* `from X import names`, X is a framework name, or X is under a framework
\* whose submodule list is the wildcard or holds the part of X after the
\* first dot, or one of the names is a UI base class.
C14_ImportIsUi ==
    analysis # <<>> =>
       \A recorded \in {SelectSeq(content.stmts, NamesModule)} :
          /\ Len(analysis[1].imports) = Len(recorded)
          /\ \A k \in DOMAIN recorded :
                /\ analysis[1].imports[k].module = Join(recorded[k].module)
                /\ analysis[1].imports[k].is_ui = ExpectedIsUi(recorded[k])

\* `import tkinterdnd2` is not UI; `from PyQt5.QtSql import join` is not UI
\* while `import PyQt5.QtSql` is
C14_Witness ==
    /\ analysis # <<>>
    /\ Len(analysis[1].imports) = 2
    /\ content.stmts[1].k = "from"
    /\ analysis[1].imports[1].module = "PyQt5.QtSql"
    /\ ~analysis[1].imports[1].is_ui
    /\ content.stmts[2].k = "import"
    /\ analysis[1].imports[2].module = "PyQt5.QtSql"
    /\ analysis[1].imports[2].is_ui

(***************************************************************************)
(* The web-ready lines of a project (specification Spec)                   *)
(***************************************************************************)
\* the lines of the pure top-level functions of a text
PureSnippetLines(text) ==
    LET pure == SelectSeq(text.stmts, IsPureSnippet)
    IN  SumSeq([k \in DOMAIN pure |-> pure[k].n])
\* the web-ready numerator, read off the texts and the classifications
ExpectedNumerator(texts) ==
    SumSeq([i \in DOMAIN file_analyses |->
        IF file_analyses[i].is_logic_file THEN LineCount(texts[i])
        ELSE IF file_analyses[i].is_mixed_file THEN PureSnippetLines(texts[i])
        ELSE 0])
ExpectedDenominator(texts) ==
    SumSeq([i \in DOMAIN file_analyses |-> LineCount(texts[i])])
\* p, in hundredths of a percent, is 100 * num / den to the nearest hundredth
IsPercentageOf(p, num, den) ==
    /\ 2 * (p * den - Hundred * num) <= den
    /\ 2 * (Hundred * num - p * den) <= den

\* C15: the web-ready percentage is the full line count of the Logic files
\* plus the lines of the pure top-level functions of the Mixed files, over
\* the line count of all analyzed files; UI files add nothing to the
\* numerator; the result is 0 when the total line count is 0.
C15_WebReadyRatio ==
    Done =>
      \A texts \in {ReturnedTexts} :
        LET num == ExpectedNumerator(texts)
            den == ExpectedDenominator(texts)
        IN  IF den = 0 THEN Summary.web_ready_percentage = 0
            ELSE IsPercentageOf(Summary.web_ready_percentage, num, den)

\* a UI file next to a Logic file: only the Logic file's lines count
C15_Witness ==
    /\ Done
    /\ \E i, j \in DOMAIN file_analyses :
          /\ file_analyses[i].is_ui_file /\ file_analyses[i].loc > 0
          /\ file_analyses[j].is_logic_file /\ file_analyses[j].loc > 0
    /\ Summary.web_ready_percentage > 0
    /\ Summary.web_ready_percentage < Hundred

(***************************************************************************)
(* The frameworks-seen accumulator (specification Spec)                    *)
(***************************************************************************)
\* the framework names of the UI imports a text holds
FrameworksImported(text) ==
    IF HasUiImportStatement(text) THEN {"PyQt5"} ELSE {}

\* C16: after every analyze_file call that returned, the analyzer's
\* ui_frameworks is the set of framework names of the UI imports of the
\* file just analyzed, and the result of analyze_project reports the value
\* the last analyzed file left.
C16_LastFileFrameworks ==
    \A texts \in {ReturnedTexts} :
       /\ file_analyses # <<>> =>
             ui_frameworks = FrameworksImported(texts[Len(texts)])
       /\ Done => Summary.ui_frameworks = ui_frameworks

(***************************************************************************)
(* Projects of files with many classes (specification SpecGuide)           *)
(***************************************************************************)
\* UI classes of a file
MaxUiClasses == 11

\* without a plain class, or with one
PlainClassChoices == {<<>>, <<Snippet("class", 2)>>}
GuideContents ==
    {Text(Repeat(Snippet("uiclass", 3), k) \o h) :
        k \in 0..MaxUiClasses, h \in PlainClassChoices}

NextGuide ==
    \/ \E n \in 0..MaxFiles : StartProject(n)
    \/ \E c \in GuideContents : AnalyzeNext(c)
    \/ FinishProject

SpecGuide == Init /\ [][NextGuide]_vars

IsUiClassSnippet(d) == d.k = "uiclass"
\* the UI classes of the files the result lists as UI files
NumUiClassesOfUiFiles(texts) ==
    SumSeq([i \in DOMAIN file_analyses |->
        IF file_analyses[i].is_ui_file
        THEN Len(SelectSeq(texts[i].stmts, IsUiClassSnippet)) ELSE 0])

\* C20: the estimated_complexity of the web conversion guide is "high"
\* when the number of UI classes is above 20, "medium" when it is above 10
\* and at most 20, and "low" otherwise.
C20_Complexity ==
    Done =>
      \A texts \in {ReturnedTexts} :
        LET n == NumUiClassesOfUiFiles(texts)
        IN  project_result[1].web_conversion_guide.estimated_complexity =
               (IF n > 20 THEN "high" ELSE IF n > 10 THEN "medium" ELSE "low")

(***************************************************************************)
(* RedisCache (specification SpecCache)                                    *)
(***************************************************************************)
\* get_analysis_result and get_user_history calls of a run
MaxRequests == 3

\* the results, progress reports and histories the callers hand over
ResultValues ==
    {PyDict(<<PyStr("job_id"), PyStr("data")>>, <<PyInt(1), PyStr("test")>>),
     PyDict(<<PyStr("job_id"), PyStr("span")>>,
            <<PyInt(1), PyTuple(<<PyInt(1), PyInt(2)>>)>>),
     PyDict(<<PyStr("job_id"), PyStr("created_at")>>, <<PyInt(1), PyDatetime>>)}
ProgressValues == {[progress |-> 10, status |-> "running"]}
HistoryValues ==
    {PyList(<<>>), PyList(<<PyDict(<<PyStr("id")>>, <<PyInt(1)>>)>>)}

CacheCall(op, arg, ret) == [op |-> op, arg |-> arg, ret |-> ret]

\* int(await self.redis.get(key) or "0")
CounterValue(data, key) == IF data[key] = Nil THEN 0 ELSE data[key].v
\* redis.incr(key)
Incr(data, key) == [data EXCEPT ![key] = JNum(CounterValue(data, key) + 1)]
\* redis.delete(*keys)
Delete(data, keys) == [key \in RedisKeys |-> IF key \in keys THEN Nil ELSE data[key]]

\* the keys clear_all_cache collects
KeysToDelete(data) ==
    {key \in RedisKeys :
        data[key] # Nil /\ (MatchesAnalysis(key) \/ MatchesUserHistory(key))}

\* the key invalidate_analysis_result deletes
InvalidatedKeysAllJobs(job_id) == {ResultKey(j) : j \in JobIds}
InvalidatedKeys(job_id) == {ResultKey(job_id)}

\* the body of get_analysis_result and get_user_history for `key`: the
\* value returned and the keys afterwards.  json.dumps never writes an
\* empty text, so `if value:` tells whether the key exists.  When Redis
\* does not answer, the increment in the except branch fails as well.
CountedGetNoMiss(state, data, key) ==
    IF state = "up" /\ data[key] # Nil
    THEN [ret |-> json_loads(data[key]), data |-> Incr(data, HitsKey)]
    ELSE [ret |-> PyNone, data |-> data]
CountedGet(state, data, key) ==
    IF state # "up" THEN [ret |-> PyNone, data |-> data]
    ELSE IF data[key] # Nil
    THEN [ret |-> json_loads(data[key]), data |-> Incr(data, HitsKey)]
    ELSE [ret |-> PyNone, data |-> Incr(data, MissesKey)]

\* the dict get_cache_stats returns
CacheStats(hits, misses) ==
    [t |-> "stats", cache_hits |-> hits, cache_misses |-> misses,
     total_requests |-> hits + misses,
     hit_rate_percentage |->
         IF hits + misses > 0 THEN Round2(hits, hits + misses) ELSE 0]

Requests == CounterValue(redis_data, HitsKey) + CounterValue(redis_data, MissesKey)

\* connect(): from_url returns a client, or raises and _redis stays None
Connect(ok) ==
    /\ redis' = IF redis = "none" THEN (IF ok THEN "up" ELSE "none") ELSE redis
    /\ cache_call' = CacheCall("connect", 0, PyNone)
    /\ UNCHANGED <<redis_data, cached_for>>
    /\ UNCHANGED <<engine_vars, db_vars, socket_vars, task_vars>>

\* the Redis server stops answering, and answers again
ServerFails ==
    /\ redis = "up"
    /\ redis' = "down"
    /\ UNCHANGED <<redis_data, cache_call, cached_for>>
    /\ UNCHANGED <<engine_vars, db_vars, socket_vars, task_vars>>
ServerRecovers ==
    /\ redis = "down"
    /\ redis' = "up"
    /\ UNCHANGED <<redis_data, cache_call, cached_for>>
    /\ UNCHANGED <<engine_vars, db_vars, socket_vars, task_vars>>

\* the time to live of a key written with setex runs out
Expire(key) ==
    /\ redis_data[key] # Nil
    /\ redis_data' = [redis_data EXCEPT ![key] = Nil]
    /\ cached_for' = [j \in JobIds |->
                         IF key = ResultKey(j) THEN PyNone ELSE cached_for[j]]
    /\ UNCHANGED <<redis, cache_call>>
    /\ UNCHANGED <<engine_vars, db_vars, socket_vars, task_vars>>

SetAnalysisResult(job_id, result) ==
    /\ \E success \in {Serializable(result) /\ redis = "up"} :
          /\ redis_data' =
                IF success
                THEN [redis_data EXCEPT ![ResultKey(job_id)] = json_dumps(result)]
                ELSE redis_data
          /\ cached_for' =
                IF success THEN [cached_for EXCEPT ![job_id] = result]
                ELSE cached_for
          /\ cache_call' = CacheCall("set_analysis_result", job_id, PyBool(success))
    /\ UNCHANGED redis
    /\ UNCHANGED <<engine_vars, db_vars, socket_vars, task_vars>>

GetAnalysisResult(job_id) ==
    /\ Requests < MaxRequests
    /\ \E r \in {CountedGet(redis, redis_data, ResultKey(job_id))} :
          /\ redis_data' = r.data
          /\ cache_call' = CacheCall("get_analysis_result", job_id, r.ret)
    /\ UNCHANGED <<redis, cached_for>>
    /\ UNCHANGED <<engine_vars, db_vars, socket_vars, task_vars>>

InvalidateAnalysisResult(job_id) ==
    /\ redis_data' = IF redis = "up"
                     THEN Delete(redis_data, InvalidatedKeys(job_id))
                     ELSE redis_data
    /\ cached_for' = IF redis = "up"
                     THEN [cached_for EXCEPT ![job_id] = PyNone]
                     ELSE cached_for
    /\ cache_call' = CacheCall("invalidate_analysis_result", job_id,
                               PyBool(redis = "up"))
    /\ UNCHANGED redis
    /\ UNCHANGED <<engine_vars, db_vars, socket_vars, task_vars>>

SetProgress(job_id, p) ==
    /\ redis_data' =
          IF redis = "up"
          THEN [redis_data EXCEPT ![ProgressKey(job_id)] =
                   json_dumps(PyDict(
                       <<PyStr("progress"), PyStr("status"), PyStr("message")>>,
                       <<PyInt(p.progress), PyStr(p.status), PyStr("")>>))]
          ELSE redis_data
    /\ cache_call' = CacheCall("set_progress", job_id, PyBool(redis = "up"))
    /\ UNCHANGED <<redis, cached_for>>
    /\ UNCHANGED <<engine_vars, db_vars, socket_vars, task_vars>>

GetProgress(job_id) ==
    /\ cache_call' =
          CacheCall("get_progress", job_id,
                    IF redis = "up" /\ redis_data[ProgressKey(job_id)] # Nil
                    THEN json_loads(redis_data[ProgressKey(job_id)])
                    ELSE PyNone)
    /\ UNCHANGED <<redis, redis_data, cached_for>>
    /\ UNCHANGED <<engine_vars, db_vars, socket_vars, task_vars>>

SetUserHistory(user_id, history) ==
    /\ \E success \in {Serializable(history) /\ redis = "up"} :
          /\ redis_data' =
                IF success
                THEN [redis_data EXCEPT ![HistoryKey(user_id)] = json_dumps(history)]
                ELSE redis_data
          /\ cache_call' = CacheCall("set_user_history", user_id, PyBool(success))
    /\ UNCHANGED <<redis, cached_for>>
    /\ UNCHANGED <<engine_vars, db_vars, socket_vars, task_vars>>

GetUserHistory(user_id) ==
    /\ Requests < MaxRequests
    /\ \E r \in {CountedGet(redis, redis_data, HistoryKey(user_id))} :
          /\ redis_data' = r.data
          /\ cache_call' = CacheCall("get_user_history", user_id, r.ret)
    /\ UNCHANGED <<redis, cached_for>>
    /\ UNCHANGED <<engine_vars, db_vars, socket_vars, task_vars>>

InvalidateUserHistory(user_id) ==
    /\ redis_data' = IF redis = "up"
                     THEN Delete(redis_data, {HistoryKey(user_id)})
                     ELSE redis_data
    /\ cache_call' = CacheCall("invalidate_user_history", user_id,
                               PyBool(redis = "up"))
    /\ UNCHANGED <<redis, cached_for>>
    /\ UNCHANGED <<engine_vars, db_vars, socket_vars, task_vars>>

GetCacheStats ==
    /\ cache_call' =
          CacheCall("get_cache_stats", 0,
                    IF redis = "up"
                    THEN CacheStats(CounterValue(redis_data, HitsKey),
                                    CounterValue(redis_data, MissesKey))
                    ELSE CacheStats(0, 0))
    /\ UNCHANGED <<redis, redis_data, cached_for>>
    /\ UNCHANGED <<engine_vars, db_vars, socket_vars, task_vars>>

ClearAllCache ==
    /\ redis_data' = IF redis = "up"
                     THEN Delete(redis_data, KeysToDelete(redis_data))
                     ELSE redis_data
    /\ cached_for' = IF redis = "up" THEN [j \in JobIds |-> PyNone]
                     ELSE cached_for
    /\ cache_call' = CacheCall("clear_all_cache", 0, PyBool(redis = "up"))
    /\ UNCHANGED redis
    /\ UNCHANGED <<engine_vars, db_vars, socket_vars, task_vars>>

NextCache ==
    \/ \E ok \in BOOLEAN : Connect(ok)
    \/ ServerFails
    \/ ServerRecovers
    \/ \E key \in ExpiringKeys : Expire(key)
    \/ \E j \in JobIds, r \in ResultValues : SetAnalysisResult(j, r)
    \/ \E j \in JobIds : GetAnalysisResult(j)
    \/ \E j \in JobIds : InvalidateAnalysisResult(j)
    \/ \E j \in JobIds, p \in ProgressValues : SetProgress(j, p)
    \/ \E j \in JobIds : GetProgress(j)
    \/ \E u \in UserIds, h \in HistoryValues : SetUserHistory(u, h)
    \/ \E u \in UserIds : GetUserHistory(u)
    \/ \E u \in UserIds : InvalidateUserHistory(u)
    \/ GetCacheStats
    \/ ClearAllCache

SpecCache == Init /\ [][NextCache]_vars

(***************************************************************************)
(* Properties of the result cache (specification SpecCache)                *)
(***************************************************************************)
\* a value json.dumps and json.loads hand back unchanged: dicts with
\* string keys, lists, strings, numbers, booleans and None
RECURSIVE IsJsonNative(_)
IsJsonNative(v) ==
    CASE v.t \in {"None", "bool", "str", "int"} -> TRUE
      [] v.t = "list" -> \A i \in DOMAIN v.items : IsJsonNative(v.items[i])
      [] v.t = "dict" ->
             /\ \A i \in DOMAIN v.keys : v.keys[i].t = "str"
             /\ \A i \in DOMAIN v.vals : IsJsonNative(v.vals[i])
      [] OTHER -> FALSE
\* v with every tuple turned into a list and every dict key into a string
RECURSIVE TuplesAsLists(_)
TuplesAsLists(v) ==
    CASE v.t \in {"list", "tuple"} ->
             PyList([i \in DOMAIN v.items |-> TuplesAsLists(v.items[i])])
      [] v.t = "dict" ->
             PyDict([i \in DOMAIN v.keys |->
                        IF v.keys[i].t = "int" THEN PyStr(ToString(v.keys[i].v))
                        ELSE v.keys[i]],
                    [i \in DOMAIN v.vals |-> TuplesAsLists(v.vals[i])])
      [] OTHER -> v

\* an invalidate call leaves the entries of the other jobs alone
InvalidateKeepsOthers ==
    \A j \in JobIds :
       InvalidateAnalysisResult(j) =>
          \A k \in JobIds \ {j} :
             redis_data'[ResultKey(k)] = redis_data[ResultKey(k)]

\* C17 as stated: get_analysis_result(job) returns the r of the last
\* set_analysis_result(job, r) that returned True, as long as the entry has
\* not expired and was not invalidated or cleared, and None otherwise;
\* invalidate leaves the entries of other jobs alone.
C17_GetReturnsWhatWasSet ==
    [][/\ \A j \in JobIds :
             GetAnalysisResult(j) => cache_call'.ret = cached_for[j]
       /\ InvalidateKeepsOthers]_vars

\* C17, amended: while Redis answers, get_analysis_result(job) returns the
\* JSON round trip of that r: r itself when r is made of string-keyed
\* dicts, lists, strings, numbers, booleans and None, and r with its
\* tuples as lists (non-string keys as strings) otherwise; a call Redis
\* does not answer returns None and changes no entry.
C17_GetReturnsRoundTrip ==
    [][/\ \A j \in JobIds :
             GetAnalysisResult(j) =>
                /\ redis = "up" =>
                      /\ cache_call'.ret = TuplesAsLists(cached_for[j])
                      /\ IsJsonNative(cached_for[j]) =>
                            cache_call'.ret = cached_for[j]
                /\ redis # "up" =>
                      /\ cache_call'.ret = PyNone
                      /\ redis_data' = redis_data
       /\ InvalidateKeepsOthers]_vars

\* a get returned the result set before, while the other job has an entry
C17_Witness ==
    /\ cache_call.op = "get_analysis_result"
    /\ cache_call.ret # PyNone
    /\ cache_call.ret = cached_for[cache_call.arg]
    /\ \E k \in JobIds \ {cache_call.arg} : cached_for[k] # PyNone

CacheHits == CounterValue(redis_data, HitsKey)
CacheMisses == CounterValue(redis_data, MissesKey)
\* this step is a get_analysis_result or get_user_history call
CountedGetStep(ret) ==
    \/ \E j \in JobIds : GetAnalysisResult(j) /\ cache_call'.ret = ret
    \/ \E u \in UserIds : GetUserHistory(u) /\ cache_call'.ret = ret
CountedAsHit == CacheHits' = CacheHits + 1 /\ CacheMisses' = CacheMisses
CountedAsMiss == CacheMisses' = CacheMisses + 1 /\ CacheHits' = CacheHits
CountersUnchanged == CacheHits' = CacheHits /\ CacheMisses' = CacheMisses
\* the dict a get_cache_stats call returned adds up
StatsAddUp(stats) ==
    /\ stats.total_requests = stats.cache_hits + stats.cache_misses
    /\ stats.hit_rate_percentage >= 0
    /\ stats.hit_rate_percentage <= Hundred

MaxNow == 1

\* user.team_id of a user without a team
NoTeam == 0
\* the owner column of a job that was deleted
NoUser == 0
\* expires_at of a sharing that does not expire
Never == 0

\* the rows of the teams table
TeamIds == {1, 2}
\* the rows of the users table
Accounts ==
    {[id |-> 100, role |-> "team_lead", team_id |-> 1],
     [id |-> 101, role |-> "member", team_id |-> 1],
     [id |-> 102, role |-> "viewer", team_id |-> 2],
     [id |-> 103, role |-> "admin", team_id |-> NoTeam]}
\* the users who upload: those who can share what they own
Uploaders == {user \in Accounts : user.role \in {"team_lead", "admin"}}
\* the permissions and expires_at of a share request
ShareRequests ==
    {[can_view |-> TRUE, can_download |-> TRUE, expires_at |-> Never],
     [can_view |-> TRUE, can_download |-> FALSE, expires_at |-> 1],
     [can_view |-> FALSE, can_download |-> TRUE, expires_at |-> Never]}
\* the job ids of a request: those of the table and one it never holds
RequestedJobIds == JobIds \cup {3}

DbCall(op, ret) == [op |-> op, ret |-> ret]

\* db.query(AnalysisJob).filter(AnalysisJob.id == job_id).first() is a row
JobExists(job_id) == job_id \in DOMAIN jobs /\ jobs[job_id] # NoUser

\* UserRole.TEAM_LEAD or UserRole.ADMIN
can_share(user) == user.role \in {"team_lead", "admin"}

\* the rows for a job and a team
SharingRows(job_id, team_id) ==
    {row \in sharings : row.job_id = job_id /\ row.team_id = team_id}

\* (expires_at IS NULL) | (expires_at > now)
NotExpiredIgnored(row) == TRUE
NotExpired(row) == row.expires_at = Never \/ row.expires_at > now

\* the values check_access can return: first() takes one of the rows the
\* query matches
check_access(job_id, user, require_download) ==
    IF ~JobExists(job_id) THEN {FALSE}
    ELSE IF jobs[job_id] = user.id THEN {TRUE}
    ELSE IF user.team_id = NoTeam THEN {FALSE}
    ELSE LET rows == {row \in SharingRows(job_id, user.team_id) : NotExpired(row)}
         IN  IF rows = {} THEN {FALSE}
             ELSE {IF require_download THEN row.can_download ELSE row.can_view :
                      row \in rows}

\* upload_file / analyze_from_path: the job row added for the user, pending
\* at progress 0, and its run_analysis_background task added
CreateJob(user) ==
    /\ Len(jobs) < Cardinality(JobIds)
    /\ jobs' = Append(jobs, user.id)
    /\ job_rows' = Append(job_rows, [status |-> "pending", progress |-> 0])
    /\ tasks' = Append(tasks, "added")
    /\ db_call' = DbCall("create_job", "created")
    /\ UNCHANGED <<sharings, now, history_call>>
    /\ UNCHANGED <<engine_vars, cache_vars, socket_vars>>

\* delete_analysis: the job row is deleted and its cache entries are
\* invalidated; the sharing rows of the job go with it or stay, as the
\* foreign key of the table says
DeleteAnalysis(job_id, user) ==
    IF JobExists(job_id) /\ jobs[job_id] = user.id
    THEN /\ jobs' = [jobs EXCEPT ![job_id] = NoUser]
         /\ \E cascade \in BOOLEAN :
               sharings' = IF cascade
                           THEN {row \in sharings : row.job_id # job_id}
                           ELSE sharings
         /\ db_call' = DbCall("delete_analysis", "deleted")
         /\ redis_data' =
               IF redis = "up"
               THEN Delete(redis_data, InvalidatedKeys(job_id) \cup {HistoryKey(user.id)})
               ELSE redis_data
         /\ cached_for' = IF redis = "up"
                          THEN [cached_for EXCEPT ![job_id] = PyNone]
                          ELSE cached_for
         /\ cache_call' = CacheCall("invalidate_user_history", user.id,
                                    PyBool(redis = "up"))
         /\ UNCHANGED <<now, redis>>
         /\ UNCHANGED <<engine_vars, socket_vars, task_vars>>
    ELSE /\ db_call' = DbCall("delete_analysis", "404")
         /\ UNCHANGED <<jobs, sharings, now>>
         /\ UNCHANGED <<engine_vars, cache_vars, socket_vars, task_vars>>

\* share_with_team: ValueError, or the row of the job and the team updated,
\* or a new row
ShareWithTeam(job_id, team_id, user, can_view, can_download, expires_at) ==
    /\ IF \/ ~can_share(user)
          \/ ~(JobExists(job_id) /\ jobs[job_id] = user.id)
          \/ team_id \notin TeamIds
       THEN /\ db_call' = DbCall("share_with_team", "ValueError")
            /\ UNCHANGED sharings
       ELSE IF SharingRows(job_id, team_id) # {}
       THEN /\ \E existing \in SharingRows(job_id, team_id) :
                  sharings' = (sharings \ {existing}) \cup
                      {[existing EXCEPT !.can_view = can_view,
                                        !.can_download = can_download,
                                        !.expires_at = expires_at,
                                        !.shared_by_user_id = user.id]}
            /\ db_call' = DbCall("share_with_team", "updated")
       ELSE /\ sharings' = sharings \cup
                  {[job_id |-> job_id, team_id |-> team_id,
                    shared_by_user_id |-> user.id, can_view |-> can_view,
                    can_download |-> can_download, expires_at |-> expires_at]}
            /\ db_call' = DbCall("share_with_team", "created")
    /\ UNCHANGED <<jobs, now>>
    /\ UNCHANGED <<engine_vars, cache_vars, socket_vars, task_vars>>

\* unshare_with_team: ValueError, or the rows of the job and the team
\* deleted and True, or False if there was none
UnshareWithTeam(job_id, team_id, user) ==
    /\ IF ~JobExists(job_id)
       THEN /\ db_call' = DbCall("unshare_with_team", "ValueError")
            /\ UNCHANGED sharings
       ELSE IF ~(\/ jobs[job_id] = user.id
                 \/ user.role = "admin"
                 \/ (user.role = "team_lead" /\ user.team_id = team_id))
       THEN /\ db_call' = DbCall("unshare_with_team", "ValueError")
            /\ UNCHANGED sharings
       ELSE /\ sharings' = sharings \ SharingRows(job_id, team_id)
            /\ db_call' = DbCall("unshare_with_team",
                                 IF SharingRows(job_id, team_id) # {}
                                 THEN "True" ELSE "False")
    /\ UNCHANGED <<jobs, now>>
    /\ UNCHANGED <<engine_vars, cache_vars, socket_vars, task_vars>>

\* time passes
Tick ==
    /\ now < MaxNow
    /\ now' = now + 1
    /\ UNCHANGED <<jobs, sharings, db_call>>
    /\ UNCHANGED <<engine_vars, cache_vars, socket_vars, task_vars>>

NextSharing ==
    \/ \E user \in Uploaders : CreateJob(user)
    \/ \E j \in JobIds, user \in Accounts : DeleteAnalysis(j, user)
    \/ \E j \in JobIds, t \in TeamIds, user \in Accounts, r \in ShareRequests :
          ShareWithTeam(j, t, user, r.can_view, r.can_download, r.expires_at)
    \/ \E j \in JobIds, t \in TeamIds, user \in Accounts :
          UnshareWithTeam(j, t, user)
    \/ Tick

SpecSharing == Init /\ [][NextSharing]_vars

\* a job is the user's own
Owns(user, job_id) == JobExists(job_id) /\ jobs[job_id] = user.id

\* the user's team has an unexpired sharing record for the job with the
\* flag the request needs
TeamHasGrant(user, job_id, require_download) ==
    /\ user.team_id \in TeamIds
    /\ \E row \in sharings :
          /\ row.job_id = job_id
          /\ row.team_id = user.team_id
          /\ (row.expires_at = Never \/ now < row.expires_at)
          /\ IF require_download THEN row.can_download ELSE row.can_view

AccessAsClaimed ==
    \A job_id \in RequestedJobIds, user \in Accounts, require_download \in BOOLEAN :
        check_access(job_id, user, require_download) =
            {JobExists(job_id) /\ (Owns(user, job_id)
                                   \/ TeamHasGrant(user, job_id, require_download))}

\* a step of unshare_with_team that returns True, and the rows it removes
UnshareRemoves == db_call' = DbCall("unshare_with_team", "True") /\ sharings' # sharings
UnshareDenies ==
    UnshareRemoves =>
        \A row \in sharings \ sharings', user \in Accounts, require_download \in BOOLEAN :
            (user.team_id = row.team_id /\ jobs[row.job_id] # user.id) =>
                (check_access(row.job_id, user, require_download))' = {FALSE}

\* C19: after any sequence of share_with_team and unshare_with_team calls,
\* check_access(job, user) is true iff the job exists and the user owns it
\* or the user's team has an unexpired sharing record for the job with
\* can_view set (can_download when require_download is true); once
\* unshare_with_team removed the record, the non-owner members of that team
\* are denied
C19_CheckAccess == []AccessAsClaimed /\ [][UnshareDenies]_vars

\* unshare_with_team removed the record of a team, whose members are now
\* denied, while a member of a team is granted the download of a job of
\* another user
C19_Witness ==
    /\ db_call = DbCall("unshare_with_team", "True")
    /\ \E job_id \in JobIds, user \in Accounts :
          /\ JobExists(job_id)
          /\ ~Owns(user, job_id)
          /\ user.team_id \in TeamIds
          /\ check_access(job_id, user, FALSE) = {FALSE}
    /\ \E job_id \in JobIds, user \in Accounts :
          ~Owns(user, job_id) /\ check_access(job_id, user, TRUE) = {TRUE}

(***************************************************************************)
(* The recommendations of the web conversion guide (specification Spec)    *)
(***************************************************************************)
Guide == project_result[1].web_conversion_guide
\* the kinds of the recommendations of the guide
RecommendationKinds ==
    {Guide.recommendations[i].kind : i \in DOMAIN Guide.recommendations}
\* a file the result lists as a Logic file holds a top-level function
LogicFileWithFunction(texts) ==
    \E i \in DOMAIN file_analyses :
        /\ file_analyses[i].is_logic_file
        /\ FunctionSnippets(texts[i]) # <<>>
\* a file the result lists as a UI file holds a UI class
UiFileWithUiClass(texts) ==
    \E i \in DOMAIN file_analyses :
        /\ file_analyses[i].is_ui_file
        /\ SelectSeq(texts[i].stmts, IsUiClassSnippet) # <<>>
MixedAndFrameworkGated(texts) ==
    /\ "refactor" \in RecommendationKinds <=>
          (\E i \in DOMAIN file_analyses : file_analyses[i].is_mixed_file)
    /\ "framework" \in RecommendationKinds <=> UiFileWithUiClass(texts)

\* C21 as stated: the reusable-logic recommendation is present iff at
\* least one Logic file exists, the mixed-file recommendation iff at least
\* one Mixed file exists, and the framework-migration recommendation iff a
\* base-class pattern was tallied from the UI classes of the UI files.
C21_RecommendationsGated ==
    Done =>
      \A texts \in {ReturnedTexts} :
        /\ "reuse" \in RecommendationKinds <=>
              (\E i \in DOMAIN file_analyses : file_analyses[i].is_logic_file)
        /\ MixedAndFrameworkGated(texts)

\* C21 amended: the reusable-logic recommendation is present iff the Logic
\* files hold at least one top-level function; the other two as stated.
C21_ReuseGatedOnFunctions ==
    Done =>
      \A texts \in {ReturnedTexts} :
        /\ "reuse" \in RecommendationKinds <=> LogicFileWithFunction(texts)
        /\ MixedAndFrameworkGated(texts)

\* a project of a Logic file with a function and a UI file with a UI
\* class: the guide recommends reuse and a framework migration
C21_Witness ==
    /\ Done
    /\ RecommendationKinds = {"reuse", "framework"}
    /\ LogicFileWithFunction(ReturnedTexts)
    /\ UiFileWithUiClass(ReturnedTexts)

(***************************************************************************)
(* Name resolution on base and callee expressions (specification           *)
(* SpecNames)                                                              *)
(***************************************************************************)
\* attribute, call and subscript levels of an expression
MaxDepth == 2
\* definitions around a class
MaxNest == 2

\* the identifiers and attribute names the expressions are written with
NameIds == {"QWidget", "QtWidgets"}
AttrNames == {"QWidget", "show"}

\* the expressions of at most d levels
RECURSIVE Exprs(_)
Exprs(d) ==
    IF d = 0 THEN {Name(id) : id \in NameIds} \cup {Literal}
    ELSE LET below == Exprs(d - 1)
         IN  below
             \cup {Attribute(e, a) : e \in below, a \in AttrNames}
             \cup {Call(e, <<>>) : e \in below}
             \cup {Subscript(e) : e \in below}

\* the base lists of a class statement
BaseLists ==
    UNION {{<<e>>, <<Name("object"), e>>, <<e, Name("object")>>} :
              e \in Exprs(MaxDepth)}
\* the statements of a function statement
StatementLists ==
    UNION {{<<e>>, <<e, Attribute(Name("w"), "hide")>>} : e \in Exprs(MaxDepth)}

\* a class with any base list at the top level, a class with one base of
\* fewer levels inside definitions, and a function with any statements
NameSnippets ==
    {ClassSnippet(bases, <<>>) : bases \in BaseLists}
    \cup {ClassSnippet(<<e>>, wrappers) :
             e \in Exprs(MaxDepth - 1),
             wrappers \in SeqUpTo({"def", "class"}, MaxNest)}
    \cup {CallSnippet(exprs, inner) : exprs \in StatementLists, inner \in BOOLEAN}

\* the environment writes a text of one statement
WriteNamed(d) ==
    /\ analysis = <<>>
    /\ content = Text(<<>>)
    /\ content' = Text(<<d>>)
    /\ UNCHANGED analysis
    /\ UNCHANGED analyzer_vars
    /\ UNCHANGED project_vars
    /\ UNCHANGED service_vars

NextNames ==
    \/ \E d \in NameSnippets : WriteNamed(d)
    \/ AnalyzeFile
    \/ NewText

SpecNames == Init /\ [][NextNames]_vars

\* the text holds one statement of the given kind and was analyzed
Analyzed(kind) ==
    /\ analysis # <<>>
    /\ content.ok
    /\ Len(content.stmts) = 1
    /\ content.stmts[1].k = kind
\* the record of the class Shape of the analyzed text
ShapeRecords ==
    {analysis[1].classes[i] : i \in {j \in DOMAIN analysis[1].classes :
                                        analysis[1].classes[j].name = "Shape"}}

\* a plain dotted name: an identifier, or an attribute of a plain dotted name
RECURSIVE IsPlainDotted(_)
IsPlainDotted(e) ==
    \/ e.t = "Name"
    \/ e.t = "Attribute" /\ IsPlainDotted(e.value)
\* the components of the name an expression is read as: the callee of a
\* call stands for the call, an owner that is no name contributes nothing
RECURSIVE NameParts(_)
NameParts(e) ==
    CASE e.t = "Name" -> <<e.id>>
      [] e.t = "Attribute" -> Append(NameParts(e.value), e.attr)
      [] e.t = "Call" -> NameParts(e.func)
      [] OTHER -> <<>>

\* C22 as stated: _get_name yields the identifier of a Name, owner '.'
\* attribute for an Attribute, and the empty string for every node that is
\* no plain dotted name (a call, an attribute of a subscript or of a call),
\* so that such an expression is never recognised as a UI base class.
C22_UnresolvableIsEmpty ==
    Analyzed("classof") =>
        \A rec \in ShapeRecords, d \in {content.stmts[1]} :
            /\ \A i \in DOMAIN d.bases :
                  rec.bases[i] = IF IsPlainDotted(d.bases[i])
                                 THEN Join(NameParts(d.bases[i])) ELSE ""
            /\ (\A i \in DOMAIN d.bases : ~IsPlainDotted(d.bases[i]))
                  => ~rec.is_ui_class

\* C22 amended: _get_name yields the identifier of a Name; for an
\* Attribute the resolved owner, a '.', and the attribute name, or the
\* attribute name alone when the owner resolves to the empty string; for a
\* call the name of its callee; and the empty string for every other node.
\* A base or a callee whose name so resolved is a UI base class is
\* recognised as one.
C22_ResolvesThroughCalls ==
    /\ Analyzed("classof") =>
          \A rec \in ShapeRecords, d \in {content.stmts[1]} :
              /\ \A i \in DOMAIN d.bases :
                    rec.bases[i] = Join(NameParts(d.bases[i]))
              /\ (\E i \in DOMAIN d.bases :
                     Join(NameParts(d.bases[i])) \in UI_BASE_CLASSES)
                    => rec.is_ui_class
    /\ Analyzed("calls") =>
          \A d \in {content.stmts[1]} :
              (d.exprs[1].t = "Call"
               /\ Join(NameParts(d.exprs[1].func)) \in UI_BASE_CLASSES)
                 => Join(NameParts(d.exprs[1].func)) \in analysis[1].functions[1].ui_usage

\* a class whose base is the call QWidget()[...].QWidget or the like: a
\* base that is no plain dotted name resolves to a UI base class
C22_Witness ==
    /\ Analyzed("classof")
    /\ \E rec \in ShapeRecords :
          /\ ~IsPlainDotted(content.stmts[1].bases[1])
          /\ rec.bases[1] = "QWidget"
          /\ rec.is_ui_class

IsClassWrapper(w) == w = "class"
\* the class definitions of a class statement: Shape and the classes around it
ClassDefsWritten(d) == 1 + Len(SelectSeq(d.wrappers, IsClassWrapper))
\* the function definitions directly in the module
TopLevelDefsWritten(d) ==
    IF d.k = "calls" THEN 1
    ELSE IF d.wrappers # <<>> /\ d.wrappers[1] = "def" THEN 1 ELSE 0

\* C23: a ClassRecord is produced for every class definition at any
\* nesting depth, its is_ui_class flag is true iff one of its resolved base
\* names is exactly a member of the UI-base-class set (the dotted
\* QtWidgets.QWidget does not qualify), and FileAnalysis.functions holds
\* records only for the function definitions directly in the module.
C23_ClassesAnyDepth ==
    /\ Analyzed("classof") =>
          \A d \in {content.stmts[1]} :
              /\ Len(analysis[1].classes) = ClassDefsWritten(d)
              /\ Cardinality(ShapeRecords) = 1
              /\ \A rec \in ShapeRecords :
                    rec.is_ui_class <=>
                       \E i \in DOMAIN d.bases :
                           Join(NameParts(d.bases[i])) \in UI_BASE_CLASSES
              /\ d.bases = <<Attribute(Name("QtWidgets"), "QWidget")>> =>
                    \A rec \in ShapeRecords : ~rec.is_ui_class
              /\ \A i \in DOMAIN analysis[1].classes :
                    analysis[1].classes[i].name = "Outer" =>
                        ~analysis[1].classes[i].is_ui_class
              /\ Len(analysis[1].functions) = TopLevelDefsWritten(d)
              /\ \A i \in DOMAIN analysis[1].functions :
                    analysis[1].functions[i].name = "make"
    /\ Analyzed("calls") =>
          /\ analysis[1].classes = <<>>
          /\ Len(analysis[1].functions) = 1
          /\ analysis[1].functions[1].name = "use"

\* a UI class defined in a class inside a function: three definitions, two
\* class records, one function record
C23_Witness ==
    /\ Analyzed("classof")
    /\ content.stmts[1].wrappers = <<"def", "class">>
    /\ Len(analysis[1].classes) = 2
    /\ Len(analysis[1].functions) = 1
    /\ \E rec \in ShapeRecords : rec.is_ui_class

\* a class whose only base is the dotted QtWidgets.QWidget is no UI class
C23_WitnessDotted ==
    /\ Analyzed("classof")
    /\ content.stmts[1].bases = <<Attribute(Name("QtWidgets"), "QWidget")>>
    /\ \A rec \in ShapeRecords : rec.bases = <<"QtWidgets.QWidget">> /\ ~rec.is_ui_class

\* an expression and the expressions inside it
RECURSIVE SubExprs(_)
SubExprs(e) ==
    CASE e.t \in {"Attribute", "Subscript"} -> {e} \cup SubExprs(e.value)
      [] e.t = "Call" -> {e} \cup SubExprs(e.func)
      [] OTHER -> {e}
\* the expressions in the body of the function of a function statement
ExprsWritten(d) == UNION {SubExprs(d.exprs[i]) : i \in DOMAIN d.exprs}
\* the UI classes constructed and the UI methods named by these expressions
UiConstructorsWritten(d) ==
    {Join(NameParts(e.func)) : e \in {x \in ExprsWritten(d) : x.t = "Call"}}
        \cap UI_BASE_CLASSES
UiMethodsWritten(d) ==
    {e.attr : e \in {x \in ExprsWritten(d) : x.t = "Attribute"}} \cap ui_methods

\* C24: ui_usage contains the name N iff a call in the subtree of the
\* function has the resolved callee name N and N is a UI base class, and
\* the token '.a()' iff an attribute access in the subtree has the
\* attribute name a of the UI-method set; it contains nothing else.
C24_UiUsage ==
    Analyzed("calls") =>
        \A d \in {content.stmts[1]}, usage \in {analysis[1].functions[1].ui_usage} :
            /\ \A N \in UI_BASE_CLASSES :
                  N \in usage <=> N \in UiConstructorsWritten(d)
            /\ \A a \in ui_methods :
                  ("." \o a \o "()") \in usage <=> a \in UiMethodsWritten(d)
            /\ usage \subseteq UI_BASE_CLASSES \cup {"." \o a \o "()" : a \in ui_methods}

\* a function defined inside the function constructs a QWidget and names
\* its show attribute without calling it: both are in ui_usage
C24_Witness ==
    /\ Analyzed("calls")
    /\ content.stmts[1].inner
    /\ content.stmts[1].exprs = <<Attribute(Call(Name("QWidget"), <<>>), "show")>>
    /\ analysis[1].functions[1].ui_usage = {"QWidget", ".show()"}

(***************************************************************************)
(* The reason of a medium-effort suggestion (specification Spec)           *)
(***************************************************************************)
\* C29: every "medium" effort (web_ready = false) extraction suggestion
\* refers to a function with at least one and at most two UI-usage entries,
\* so that its reason names at least one UI usage.
C29_MediumNamesUiUsage ==
    Done =>
      \A all \in {project_result[1].extraction_suggestions} :
        \A k \in DOMAIN all :
            (all[k].estimated_effort = "medium" /\ ~all[k].web_ready) =>
                /\ Cardinality(all[k].reason.usages) >= 1
                /\ Cardinality(all[k].reason.usages) <= 2

(***************************************************************************)
(* Several analyze_project runs of one engine (specification SpecRuns)     *)
(***************************************************************************)
\* the texts of the files of these projects
RunContents ==
    {Text(<<Snippet("from_qt", 1)>>), Text(<<Snippet("import_os", 1)>>),
     Text(<<Snippet("pure", 2)>>)}
    \cup {BrokenText(raw) : raw \in 1..MaxRawLines}

\* analyze_project has returned; the module-level engine of the routes is
\* ready for the next job
NextJob ==
    /\ pc = "done"
    /\ pc' = "idle"
    /\ UNCHANGED <<nfiles, idx, file_analyses, project_result, attempts>>
    /\ UNCHANGED analyzer_vars
    /\ UNCHANGED file_vars
    /\ UNCHANGED service_vars

NextRuns ==
    \/ \E n \in 0..MaxFiles : StartProject(n)
    \/ \E c \in RunContents : AnalyzeNext(c)
    \/ AnalyzeNextRaises
    \/ FinishProject
    \/ NextJob

SpecRuns == Init /\ [][NextRuns]_vars

\* the frameworks imported by the files analyzed in the current run
FrameworksOfRun ==
    UNION {FrameworksImported(attempts[i].text) : i \in DOMAIN attempts}

\* C26: the ui_frameworks summary of a project result contains only
\* frameworks imported by files analyzed in that same analyze_project run,
\* also when the engine analyzed another project before and the current run
\* holds no file that parses.
C26_FrameworksOfThisRun ==
    Done => Summary.ui_frameworks \subseteq FrameworksOfRun

(***************************************************************************)
(* ConnectionManager: the registry of websockets and broadcast_to_job      *)
(***************************************************************************)
\* connect after websocket.accept() returned: the websocket joins the set of
\* the job, created when absent, and gets its metadata
connect(connections, metadata, websocket, job_id, user_id) ==
    <<[j \in DOMAIN connections \cup {job_id} |->
          IF j = job_id
          THEN (IF j \in DOMAIN connections THEN connections[j] ELSE {})
               \cup {websocket}
          ELSE connections[j]],
      [w \in DOMAIN metadata \cup {websocket} |->
          IF w = websocket
          THEN [job_id |-> job_id, user_id |-> user_id]
          ELSE metadata[w]]>>

\* disconnect without the cleanup of empty job entries
disconnect_keeps_empty(connections, metadata, websocket) ==
    IF websocket \notin DOMAIN metadata
    THEN <<connections, metadata>>
    ELSE LET job_id == metadata[websocket].job_id
         IN  <<IF job_id \in DOMAIN connections
               THEN [connections EXCEPT ![job_id] = @ \ {websocket}]
               ELSE connections,
               [w \in DOMAIN metadata \ {websocket} |-> metadata[w]]>>

\* disconnect: nothing for a websocket without metadata; otherwise the
\* websocket leaves the set of its job, an empty set is deleted, and the
\* metadata is deleted
disconnect(connections, metadata, websocket) ==
    IF websocket \notin DOMAIN metadata
    THEN <<connections, metadata>>
    ELSE LET job_id == metadata[websocket].job_id
             discarded == IF job_id \in DOMAIN connections
                          THEN [connections EXCEPT ![job_id] = @ \ {websocket}]
                          ELSE connections
         IN  <<IF job_id \in DOMAIN discarded /\ discarded[job_id] = {}
               THEN [j \in DOMAIN discarded \ {job_id} |-> discarded[j]]
               ELSE discarded,
               [w \in DOMAIN metadata \ {websocket} |-> metadata[w]]>>

\* the loop "for websocket in disconnected: self.disconnect(websocket)"
RECURSIVE disconnect_all(_, _, _)
disconnect_all(connections, metadata, disconnected) ==
    IF disconnected = {}
    THEN <<connections, metadata>>
    ELSE LET websocket == CHOOSE w \in disconnected : TRUE
             after == disconnect(connections, metadata, websocket)
         IN  disconnect_all(after[1], after[2], disconnected \ {websocket})

get_connection_count(job_id) ==
    IF job_id \in DOMAIN active_connections
    THEN Cardinality(active_connections[job_id])
    ELSE 0

RECURSIVE SumOfCounts(_)
SumOfCounts(job_ids) ==
    IF job_ids = {}
    THEN 0
    ELSE LET job_id == CHOOSE j \in job_ids : TRUE
         IN  get_connection_count(job_id) + SumOfCounts(job_ids \ {job_id})

get_total_connections == SumOfCounts(DOMAIN active_connections)

get_active_jobs == DOMAIN active_connections

\* the copy broadcast_to_job iterates over, taken from every job
SnapshotOfAll(job_id) ==
    UNION {active_connections[j] : j \in DOMAIN active_connections}

\* self.active_connections[job_id].copy()
Snapshot(job_id) == active_connections[job_id]

\* the endpoint calls manager.connect: accept() returns or raises, and after
\* it returned the websocket is registered
ManagerConnect(websocket, job_id, user_id, accepted) ==
    /\ websocket \notin connects
    /\ connects' = connects \cup {websocket}
    /\ \E after \in {IF accepted
                     THEN connect(active_connections, connection_metadata,
                                  websocket, job_id, user_id)
                     ELSE <<active_connections, connection_metadata>>} :
          /\ active_connections' = after[1]
          /\ connection_metadata' = after[2]
    /\ UNCHANGED <<broadcasts, received>>
    /\ UNCHANGED <<engine_vars, cache_vars, db_vars, task_vars>>

\* manager.disconnect(websocket) of the endpoint's except handlers
ManagerDisconnect(websocket) ==
    /\ \E after \in {disconnect(active_connections, connection_metadata,
                                websocket)} :
          /\ active_connections' = after[1]
          /\ connection_metadata' = after[2]
    /\ UNCHANGED <<connects, broadcasts, received>>
    /\ UNCHANGED <<engine_vars, cache_vars, db_vars, task_vars>>

\* broadcast_to_job up to its first await: it returns when the job has no
\* connections, and otherwise copies the set of the job
Broadcast(job_id, message) ==
    /\ message \notin DOMAIN broadcasts
    /\ \E call \in {IF job_id \notin DOMAIN active_connections
                    THEN [job_id |-> job_id, connections |-> {}, todo |-> {},
                          disconnected |-> {}, pc |-> "returned"]
                    ELSE [job_id |-> job_id, connections |-> Snapshot(job_id),
                          todo |-> Snapshot(job_id), disconnected |-> {},
                          pc |-> "sending"]} :
          broadcasts' = [m \in DOMAIN broadcasts \cup {message} |->
                            IF m = message THEN call ELSE broadcasts[m]]
    /\ UNCHANGED <<active_connections, connection_metadata, connects, received>>
    /\ UNCHANGED <<engine_vars, cache_vars, db_vars, task_vars>>

\* one await websocket.send_json(message) of the loop: the message is
\* delivered, or the send raises and the websocket is noted; after the last
\* one, the noted websockets are disconnected and the call returns
SendJson(message, websocket, delivered) ==
    /\ message \in DOMAIN broadcasts
    /\ broadcasts[message].pc = "sending"
    /\ websocket \in broadcasts[message].todo
    /\ \E call \in {[broadcasts[message] EXCEPT
                        !.todo = @ \ {websocket},
                        !.disconnected = IF delivered THEN @
                                         ELSE @ \cup {websocket}]} :
          IF call.todo = {}
          THEN /\ broadcasts' = [broadcasts EXCEPT
                                    ![message] = [call EXCEPT !.pc = "returned"]]
               /\ \E after \in {disconnect_all(active_connections,
                                               connection_metadata,
                                               call.disconnected)} :
                     /\ active_connections' = after[1]
                     /\ connection_metadata' = after[2]
          ELSE /\ broadcasts' = [broadcasts EXCEPT ![message] = call]
               /\ UNCHANGED <<active_connections, connection_metadata>>
    /\ received' = IF delivered
                   THEN [received EXCEPT ![websocket] = @ \cup {message}]
                   ELSE received
    /\ UNCHANGED connects
    /\ UNCHANGED <<engine_vars, cache_vars, db_vars, task_vars>>

NextSockets ==
    \/ \E websocket \in WebSockets, job_id \in JobIds, user_id \in UserIds,
          accepted \in BOOLEAN :
          ManagerConnect(websocket, job_id, user_id, accepted)
    \/ \E websocket \in WebSockets : ManagerDisconnect(websocket)
    \/ \E job_id \in JobIds, message \in Messages : Broadcast(job_id, message)
    \/ \E message \in Messages, websocket \in WebSockets, delivered \in BOOLEAN :
          SendJson(message, websocket, delivered)

SpecSockets == Init /\ [][NextSockets]_vars

(***************************************************************************)
(* Claims about the ConnectionManager                                      *)
(***************************************************************************)
Registered(websocket, job_id) ==
    /\ job_id \in DOMAIN active_connections
    /\ websocket \in active_connections[job_id]

HasMetadata(websocket, job_id) ==
    /\ websocket \in DOMAIN connection_metadata
    /\ connection_metadata[websocket].job_id = job_id

\* C28: with every websocket connected at most once, a websocket is in
\* active_connections[job] iff connection_metadata has an entry for it with
\* that job id, no job id maps to an empty set, get_total_connections is the
\* number of metadata entries, and disconnect of a websocket that is not
\* registered changes nothing
C28_RegistryConsistent ==
    /\ \A websocket \in WebSockets, job_id \in JobIds :
          Registered(websocket, job_id) <=> HasMetadata(websocket, job_id)
    /\ DOMAIN active_connections \subseteq JobIds
    /\ \A job_id \in DOMAIN active_connections :
          active_connections[job_id] # {}
    /\ get_total_connections = Cardinality(DOMAIN connection_metadata)
    /\ \A websocket \in WebSockets \ DOMAIN connection_metadata :
          disconnect(active_connections, connection_metadata, websocket)
             = <<active_connections, connection_metadata>>

\* every websocket was connected, one is still registered, and a broadcast
\* has disconnected the websockets its sends failed for
C28_Witness ==
    /\ connects = WebSockets
    /\ Cardinality(DOMAIN connection_metadata) = 1
    /\ Cardinality(DOMAIN active_connections) = 1
    /\ \E message \in DOMAIN broadcasts :
          /\ broadcasts[message].pc = "returned"
          /\ broadcasts[message].disconnected # {}

\* what has happened to the message of every call so far: only websockets of
\* the copy received it, a call that returned has sent it to every websocket
\* of the copy whose send did not fail, and the ones whose send failed are
\* in no set and have no metadata
DeliveredToTheCopy ==
    \A message \in DOMAIN broadcasts :
       LET call == broadcasts[message]
       IN  /\ \A websocket \in WebSockets :
                 message \in received[websocket]
                    => websocket \in
                          (call.connections \ call.todo) \ call.disconnected
           /\ call.pc = "returned"
                 => /\ call.todo = {}
                    /\ \A websocket \in call.connections \ call.disconnected :
                          message \in received[websocket]
                    /\ \A websocket \in call.disconnected :
                          /\ websocket \notin DOMAIN connection_metadata
                          /\ \A job_id \in DOMAIN active_connections :
                                websocket \notin active_connections[job_id]

\* a call that starts copies exactly the websockets registered for its job
CopiesItsJob ==
    \A message \in Messages :
       (message \notin DOMAIN broadcasts /\ message \in DOMAIN broadcasts')
          => broadcasts'[message].connections
                = {websocket \in DOMAIN connection_metadata :
                      connection_metadata[websocket].job_id
                         = broadcasts'[message].job_id}

\* a send that is not the last one of its call changes no registration, and
\* the last one removes the websockets whose send failed and no other
RemovesOnlyTheFailed ==
    \A message \in DOMAIN broadcasts :
       (broadcasts[message].pc = "sending"
           /\ broadcasts'[message] # broadcasts[message])
          => LET failed == IF broadcasts'[message].pc = "returned"
                           THEN broadcasts'[message].disconnected
                           ELSE {}
             IN  /\ DOMAIN connection_metadata'
                       = DOMAIN connection_metadata \ failed
                 /\ \A websocket \in DOMAIN connection_metadata' :
                       /\ connection_metadata'[websocket]
                             = connection_metadata[websocket]
                       /\ \A job_id \in JobIds :
                             Registered(websocket, job_id)
                                => Registered(websocket, job_id)'

\* C25: broadcast_to_job(job, m) sends m to every connection registered for
\* the job when the call starts and to no connection of another job; a
\* connection whose send fails is unregistered, and the other connections of
\* the job receive m and are left registered, also when connects and
\* disconnects run between the sends
C25_BroadcastToJob ==
    /\ []DeliveredToTheCopy
    /\ [][CopiesItsJob /\ RemovesOnlyTheFailed]_vars

\* a call has returned after a send that failed and one that delivered to a
\* websocket still registered, and a websocket that joined the job after the
\* call started did not get the message
C25_Witness ==
    \E message \in DOMAIN broadcasts :
       LET call == broadcasts[message]
       IN  /\ call.pc = "returned"
           /\ call.disconnected # {}
           /\ \E websocket \in call.connections \ call.disconnected :
                 /\ message \in received[websocket]
                 /\ Registered(websocket, call.job_id)
           /\ \E websocket \in WebSockets \ call.connections :
                 /\ Registered(websocket, call.job_id)
                 /\ message \notin received[websocket]

(***************************************************************************)
(* routes/analysis.py: run_analysis_background and get_analysis_history    *)
(***************************************************************************)
\* the limits of the history requests
Limits == {1, 2}

\* cache.set_progress(job_id, progress, status, message) on the keys
ProgressSet(data, job_id, progress, status) ==
    IF redis = "up"
    THEN [data EXCEPT ![ProgressKey(job_id)] =
             json_dumps(PyDict(
                 <<PyStr("progress"), PyStr("status"), PyStr("message")>>,
                 <<PyInt(progress), PyStr(status), PyStr("")>>))]
    ELSE data

\* the except clause with the progress set back to 0
FailedFromZero(row) == [status |-> "failed", progress |-> 0]

\* the except clause: job.status = "failed", the progress is not assigned
Failed(row) == [row EXCEPT !.status = "failed"]

\* result_dict of a job, with created_at as its isoformat() text
ResultDict(job_id) ==
    PyDict(<<PyStr("job_id"), PyStr("created_at")>>,
           <<PyInt(job_id), PyStr("isoformat")>>)

\* the task ends in an exception: the row of its job is gone, so the commit
\* raises, and the commit of the except clause raises as well
RunRaises(job_id) ==
    /\ tasks' = [tasks EXCEPT ![job_id] = "raised"]
    /\ UNCHANGED <<job_rows, history_call>>
    /\ UNCHANGED <<engine_vars, cache_vars, db_vars, socket_vars>>

\* the except clause for a job that has its row: failed, at the progress
\* the job object holds, and the progress report of the failure
RunFails(job_id) ==
    /\ job_rows' = [job_rows EXCEPT ![job_id] = Failed(@)]
    /\ tasks' = [tasks EXCEPT ![job_id] = "returned"]
    /\ redis_data' = ProgressSet(redis_data, job_id,
                                 job_rows[job_id].progress, "failed")
    /\ cache_call' = CacheCall("set_progress", job_id, PyBool(redis = "up"))
    /\ UNCHANGED <<redis, cached_for, history_call>>
    /\ UNCHANGED <<engine_vars, db_vars, socket_vars>>

\* run_analysis_background up to the call of the engine: it returns when the
\* job has no row, and otherwise commits running at 10 and reports it
RunBegin(job_id) ==
    /\ job_id \in DOMAIN tasks
    /\ tasks[job_id] = "added"
    /\ IF ~JobExists(job_id)
       THEN /\ tasks' = [tasks EXCEPT ![job_id] = "returned"]
            /\ UNCHANGED <<job_rows, history_call>>
            /\ UNCHANGED <<engine_vars, cache_vars, db_vars, socket_vars>>
       ELSE /\ job_rows' = [job_rows EXCEPT
                               ![job_id] = [status |-> "running", progress |-> 10]]
            /\ tasks' = [tasks EXCEPT ![job_id] = "analysing"]
            /\ redis_data' = ProgressSet(redis_data, job_id, 10, "running")
            /\ cache_call' = CacheCall("set_progress", job_id, PyBool(redis = "up"))
            /\ UNCHANGED <<redis, cached_for, history_call>>
            /\ UNCHANGED <<engine_vars, db_vars, socket_vars>>

\* analyze_project returns or raises; after it returned, 90 is committed and
\* reported
RunAnalyze(job_id, raised) ==
    /\ job_id \in DOMAIN tasks
    /\ tasks[job_id] = "analysing"
    /\ IF ~JobExists(job_id)
       THEN RunRaises(job_id)
       ELSE IF raised
       THEN RunFails(job_id)
       ELSE /\ job_rows' = [job_rows EXCEPT ![job_id].progress = 90]
            /\ tasks' = [tasks EXCEPT ![job_id] = "saving"]
            /\ redis_data' = ProgressSet(redis_data, job_id, 90, "running")
            /\ cache_call' = CacheCall("set_progress", job_id, PyBool(redis = "up"))
            /\ UNCHANGED <<redis, cached_for, history_call>>
            /\ UNCHANGED <<engine_vars, db_vars, socket_vars>>

\* the AnalysisResult row is built, or building it raises; after it was
\* built, completed at 100 is committed and reported and the result cached
RunSave(job_id, raised) ==
    /\ job_id \in DOMAIN tasks
    /\ tasks[job_id] = "saving"
    /\ IF ~JobExists(job_id)
       THEN RunRaises(job_id)
       ELSE IF raised
       THEN RunFails(job_id)
       ELSE /\ job_rows' = [job_rows EXCEPT
                               ![job_id] = [status |-> "completed",
                                            progress |-> 100]]
            /\ tasks' = [tasks EXCEPT ![job_id] = "notifying"]
            /\ redis_data' =
                  IF redis = "up"
                  THEN [ProgressSet(redis_data, job_id, 100, "completed")
                           EXCEPT ![ResultKey(job_id)] =
                                     json_dumps(ResultDict(job_id))]
                  ELSE redis_data
            /\ cached_for' = IF redis = "up"
                             THEN [cached_for EXCEPT ![job_id] = ResultDict(job_id)]
                             ELSE cached_for
            /\ cache_call' = CacheCall("set_analysis_result", job_id,
                                       PyBool(redis = "up"))
            /\ UNCHANGED <<redis, history_call>>
            /\ UNCHANGED <<engine_vars, db_vars, socket_vars>>

\* send_completion, to no connection here, and invalidate_user_history for
\* the owner of the job
RunFinish(job_id) ==
    /\ job_id \in DOMAIN tasks
    /\ tasks[job_id] = "notifying"
    /\ IF ~JobExists(job_id)
       THEN RunRaises(job_id)
       ELSE /\ tasks' = [tasks EXCEPT ![job_id] = "returned"]
            /\ redis_data' = IF redis = "up"
                             THEN Delete(redis_data, {HistoryKey(jobs[job_id])})
                             ELSE redis_data
            /\ cache_call' = CacheCall("invalidate_user_history", jobs[job_id],
                                       PyBool(redis = "up"))
            /\ UNCHANGED <<redis, cached_for, job_rows, history_call>>
            /\ UNCHANGED <<engine_vars, db_vars, socket_vars>>

\* the ids of the user's jobs, newest first, cut at limit:
\* filter(user_id == ...).order_by(created_at.desc()).limit(limit)
HistoryQuery(user_id, limit) ==
    LET newest_first == [i \in 1..Len(jobs) |-> Len(jobs) + 1 - i]
        own == SelectSeq(newest_first, LAMBDA job_id : jobs[job_id] = user_id)
    IN  SubSeq(own, 1, IF Len(own) < limit THEN Len(own) ELSE limit)

\* AnalysisHistoryResponse(...).model_dump() with created_at as a text
HistoryItemWithText(job_id) ==
    PyDict(<<PyStr("id"), PyStr("job_name"), PyStr("status"),
             PyStr("input_file"), PyStr("created_at")>>,
           <<PyInt(job_id), PyStr("job"), PyStr(job_rows[job_id].status),
             PyStr("file"), PyStr("isoformat")>>)

\* AnalysisHistoryResponse(...).model_dump(): created_at is a datetime
HistoryItem(job_id) ==
    PyDict(<<PyStr("id"), PyStr("job_name"), PyStr("status"),
             PyStr("input_file"), PyStr("created_at")>>,
           <<PyInt(job_id), PyStr("job"), PyStr(job_rows[job_id].status),
             PyStr("file"), PyDatetime>>)

\* item[name] of a dict
ItemField(item, name) ==
    item.vals[CHOOSE i \in DOMAIN item.keys : item.keys[i] = PyStr(name)].v

\* the id and the status of the responses built from cached items
FromCached(items, limit) ==
    [i \in 1..(IF Len(items) < limit THEN Len(items) ELSE limit) |->
        [id |-> ItemField(items[i], "id"),
         status |-> ItemField(items[i], "status")]]

\* the id and the status of the responses built from rows
FromRows(job_ids) ==
    [i \in DOMAIN job_ids |->
        [id |-> job_ids[i], status |-> job_rows[job_ids[i]].status]]

\* get_analysis_history(limit, offset = 0): the cached list cut at limit when
\* the cache returns a non-empty one, and otherwise the rows of the query,
\* which are cached when there are any and json.dumps takes them
GetAnalysisHistory(user_id, limit) ==
    /\ Requests < MaxRequests
    /\ \E got \in {CountedGet(redis, redis_data, HistoryKey(user_id))} :
       \E job_ids \in {HistoryQuery(user_id, limit)} :
       \E history \in {PyList([i \in DOMAIN job_ids |-> HistoryItem(job_ids[i])])} :
          IF got.ret.t = "list" /\ got.ret.items # <<>>
          THEN /\ history_call' =
                     [user_id |-> user_id, limit |-> limit, cached |-> TRUE,
                      returned |-> FromCached(got.ret.items, limit),
                      rows |-> FromRows(job_ids)]
               /\ redis_data' = got.data
               /\ cache_call' = CacheCall("get_user_history", user_id, got.ret)
          ELSE /\ history_call' =
                     [user_id |-> user_id, limit |-> limit, cached |-> FALSE,
                      returned |-> FromRows(job_ids),
                      rows |-> FromRows(job_ids)]
               /\ \E stored \in {/\ job_ids # <<>>
                                 /\ Serializable(history)
                                 /\ redis = "up"} :
                     /\ redis_data' =
                           IF stored
                           THEN [got.data EXCEPT ![HistoryKey(user_id)] =
                                    json_dumps(history)]
                           ELSE got.data
                     /\ cache_call' =
                           IF job_ids # <<>>
                           THEN CacheCall("set_user_history", user_id,
                                          PyBool(stored))
                           ELSE CacheCall("get_user_history", user_id, got.ret)
    /\ UNCHANGED <<redis, cached_for, job_rows, tasks>>
    /\ UNCHANGED <<engine_vars, db_vars, socket_vars>>

\* the steps of the background tasks
NextTask ==
    \/ \E job_id \in JobIds : RunBegin(job_id)
    \/ \E job_id \in JobIds, raised \in BOOLEAN : RunAnalyze(job_id, raised)
    \/ \E job_id \in JobIds, raised \in BOOLEAN : RunSave(job_id, raised)
    \/ \E job_id \in JobIds : RunFinish(job_id)

NextTasks ==
    \/ \E ok \in BOOLEAN : Connect(ok)
    \/ \E user \in Uploaders : CreateJob(user)
    \/ \E job_id \in JobIds, user \in Uploaders : DeleteAnalysis(job_id, user)
    \/ NextTask

\* a task added with add_task is run to its end by the event loop
SpecTasks == Init /\ [][NextTasks]_vars /\ WF_vars(NextTask)

NextJobs ==
    \/ NextTasks
    \/ \E user_id \in UserIds, limit \in Limits :
          GetAnalysisHistory(user_id, limit)

SpecJobs == Init /\ [][NextJobs]_vars

(***************************************************************************)
(* Claims about the jobs and their history                                 *)
(***************************************************************************)
StatusChanges ==
    {<<"pending", "running">>, <<"running", "completed">>,
     <<"running", "failed">>}

ProgressValuesOfJobs == {0, 10, 90, 100}

\* every row has one of the four progress values, and 100 with completed only
RowsWellFormed ==
    \A job_id \in DOMAIN job_rows :
       /\ job_rows[job_id].progress \in ProgressValuesOfJobs
       /\ job_rows[job_id].progress = 100
             <=> job_rows[job_id].status = "completed"

\* a step adds a pending row at 0 or moves the rows along the status
\* changes, never lowers a progress, and leaves it as it is on a failure
RowsMoveForward ==
    /\ \A job_id \in DOMAIN job_rows' \ DOMAIN job_rows :
          job_rows'[job_id] = [status |-> "pending", progress |-> 0]
    /\ \A job_id \in DOMAIN job_rows :
          /\ job_id \in DOMAIN job_rows'
          /\ \/ job_rows'[job_id].status = job_rows[job_id].status
             \/ <<job_rows[job_id].status, job_rows'[job_id].status>>
                   \in StatusChanges
          /\ job_rows'[job_id].progress >= job_rows[job_id].progress
          /\ (job_rows'[job_id].status = "failed"
                 /\ job_rows[job_id].status # "failed")
                => job_rows'[job_id].progress = job_rows[job_id].progress

\* a job whose task was added is completed or failed in the end, unless its
\* row is deleted
RunsToTheEnd ==
    \A job_id \in JobIds :
       (job_id \in DOMAIN tasks)
          ~> (\/ ~JobExists(job_id)
              \/ job_rows[job_id].status \in {"completed", "failed"})

=============================================================================
